---- MODULE Spec2Model ----
(***************************************************************************)
(* Verification model of gwu-libraries/legacy-to-elements.                 *)
(*                                                                         *)
(* Part I  : process_authors.parse_persons and its worker _parse_process,  *)
(*           two kinds of process talking over one duplex Pipe.            *)
(* Part II : lyterati_utils.name_parser / elements_types, the pure         *)
(*           functions of the name parser.                                 *)
(***************************************************************************)
EXTENDS Integers, Sequences, FiniteSets, TLC

(***************************************************************************)
(* Bounds of the model.                                                    *)
(***************************************************************************)
\* number of rows load_author_user_data yields at most
MaxRows == 2
\* longest person list a worker answers with
MaxPersons == 2

VARIABLES
    rows,       \* the rows of the CSV file, in file order (input, never changes)
    pc,         \* where parse_persons is
    idx,        \* index of the row the for loop of parse_persons is at
    succeeded,  \* parse_persons: succeeded
    timeouts,   \* parse_persons: timeouts
    person,     \* parse_persons: the local variable `person` (loop variable of line 80)
    toWorker,   \* bytes main.send() wrote and no worker has read yet
    toMain,     \* what workers sent with conn.send() and main has not read yet
    procs,      \* every mp.Process started so far; `proc` is the last one
    gotEmpty,   \* history: the rows for which main.recv() returned an empty list
    timedOut,   \* history: the rows for which main.poll(TIMEOUT) returned False
    op,         \* Part II: the call made last
    authors,    \* Part II: the Author list handed to the last _post_clean call
    result,     \* Part II: what the last call returned
    cleaned,    \* Part II: what the first _post_clean call returned
    names,      \* Part II: the string handed to parse_one or parse_names
    user,       \* Part II: the user of the ElementsPersonList, if any
    parsed,     \* Part II: what parse_one returned (the list _post_clean is given)
    raised,     \* Part II: the exception the last call raised, "none" if none
    errors,         \* AuthorParser.errors
    list_of_names,  \* parse_many: the list the generator was made for
    position,       \* parse_many: the index i the for loop comes to next
    yielded,        \* parse_many: what the generator has yielded, in order
    calls,          \* history: the parse_many calls made on the parser
    mark,           \* history: the length of errors when the last call was made
    used,           \* ElementsObjectID.used
    minted,         \* what the last call of mint_id was given and returned
    parse_tree      \* the tree handed to RemoveAmbiguities().transform

\* the state of parse_persons and its workers
pvars == <<rows, pc, idx, succeeded, timeouts, person, toWorker, toMain, procs,
           gotEmpty, timedOut>>

\* the state of the calls of the name parser
nvars == <<op, authors, result, cleaned, names, user, parsed, raised>>

\* the state of the parse_many generator and of the parser it runs on
gvars == <<errors, list_of_names, position, yielded, calls, mark>>

\* the state of the ElementsObjectID
ivars == <<used, minted>>

\* the state of the RemoveAmbiguities transformer
tvars == <<parse_tree>>

vars == <<pvars, nvars, gvars, ivars, tvars>>

(***************************************************************************)
(* Part I.  parse_persons                                                  *)
(***************************************************************************)

\* A row of the file, as far as parse_persons looks at it:
\*   hasId   - elements_id is present (line 65)
\*   blank   - the author column is empty or NaN (line 73)
\*   answer  - length of list(ElementsPersonList(persons, parser, user)) for it
\*   runaway - the parse of its author string never finishes (the memory bug
\*             the docstring of parse_persons names)
RowKinds ==
    {[hasId |-> FALSE, blank |-> FALSE, answer |-> 1, runaway |-> FALSE],
     [hasId |-> TRUE,  blank |-> TRUE,  answer |-> 0, runaway |-> FALSE],
     [hasId |-> TRUE,  blank |-> FALSE, answer |-> 1, runaway |-> TRUE]}
    \cup {[hasId |-> TRUE, blank |-> FALSE, answer |-> n, runaway |-> FALSE] :
              n \in 0..MaxPersons}

RowSeqs == UNION {[1..n -> RowKinds] : n \in 1..MaxRows}

\* the local `person` is kept as a sequence: empty before the for loop of
\* line 80 ever bound it, else the one dict it is bound to
Unbound == <<>>

\* the category parse_persons is called with (line 53, the default)
category == "publication"

\* el_key of line 67: ELEMENTS_FIELD_MAP[key_column] for the default column
el_key == "authors"

\* fixed_data of lines 69-71 for row r: the id is the row's own
fixed_data(r) == [id |-> r, category |-> category, field_name |-> el_key]

\* user_to_person (lines 45-51): the owner of row r, updated with fixed_data
user_to_person(r) ==
    [id |-> fixed_data(r).id, category |-> fixed_data(r).category,
     field_name |-> fixed_data(r).field_name, owner |-> TRUE, src |-> r]

\* a person dict as the worker sends it: src is the row whose author string
\* it was parsed from (history, not visible to the program)
parsed_person(src) == [owner |-> FALSE, src |-> src]

\* list(person_list) of line 34 for the work item of row src, as it travels
\* over the pipe
person_list(src) ==
    [src |-> src, list |-> [k \in 1..rows[src].answer |-> parsed_person(src)]]

\* person.update(fixed_data) of line 81
update(p, r) ==
    [id |-> fixed_data(r).id, category |-> fixed_data(r).category,
     field_name |-> fixed_data(r).field_name, owner |-> p.owner, src |-> p.src]

\* Python truth value of a dict: false exactly when it has no key
Truthy(d) == DOMAIN d # {}

\* messages main sends
MsgTrue == [t |-> "True", row |-> 0]
MsgFalse == [t |-> "False", row |-> 0]
MsgItem(r) == [t |-> "item", row |-> r]

\* mp.Process(target=_parse_process, args=(worker,)); proc.start()
NewProc == [st |-> "recv", row |-> 0, signalled |-> FALSE]

Init ==
    /\ rows \in RowSeqs
    /\ pc = "start"
    /\ idx = 1
    /\ succeeded = <<>>
    /\ timeouts = <<>>
    /\ person = Unbound
    /\ toWorker = <<>>
    /\ toMain = <<>>
    /\ procs = <<>>
    /\ gotEmpty = {}
    /\ timedOut = {}
    /\ op = "none"
    /\ authors = <<>>
    /\ result = <<>>
    /\ cleaned = <<>>
    /\ names = <<>>
    /\ user = <<>>
    /\ parsed = <<>>
    /\ raised = "none"
    /\ errors = <<>>
    /\ list_of_names = <<>>
    /\ position = 0
    /\ yielded = <<>>
    /\ calls = 0
    /\ mark = 0
    /\ used = <<>>
    /\ minted = <<>>
    /\ parse_tree = <<>>

\* lines 56-61: the pipe, the first worker, the first True
MainStart ==
    /\ pc = "start"
    /\ procs' = <<NewProc>>
    /\ toWorker' = Append(toWorker, MsgTrue)
    /\ pc' = "loop"
    /\ UNCHANGED <<nvars, gvars, ivars, tvars, rows, idx, succeeded, timeouts, person, toMain, gotEmpty, timedOut>>

\* lines 62-77 without the test of line 73: every row with an id is sent
MainRow_every_row_sent ==
    /\ pc = "loop"
    /\ idx <= Len(rows)
    /\ IF ~rows[idx].hasId
       THEN /\ idx' = idx + 1
            /\ UNCHANGED <<pc, succeeded, toWorker>>
       ELSE /\ toWorker' = Append(toWorker, MsgItem(idx))
            /\ pc' = "poll"
            /\ UNCHANGED <<idx, succeeded>>
    /\ UNCHANGED <<nvars, gvars, ivars, tvars, rows, timeouts, person, toMain, procs, gotEmpty, timedOut>>

\* lines 62-77: one iteration of the for loop up to `continue` or main.send
MainRow ==
    /\ pc = "loop"
    /\ idx <= Len(rows)
    /\ IF ~rows[idx].hasId
       THEN \* line 65-66
            /\ idx' = idx + 1
            /\ UNCHANGED <<pc, succeeded, toWorker>>
       ELSE IF rows[idx].blank
       THEN \* lines 73-75
            /\ succeeded' = Append(succeeded, user_to_person(idx))
            /\ idx' = idx + 1
            /\ UNCHANGED <<pc, toWorker>>
       ELSE \* lines 76-77
            /\ toWorker' = Append(toWorker, MsgItem(idx))
            /\ pc' = "poll"
            /\ UNCHANGED <<idx, succeeded>>
    /\ UNCHANGED <<nvars, gvars, ivars, tvars, rows, timeouts, person, toMain, procs, gotEmpty, timedOut>>

\* the value of `person` after the for loop of lines 80-81 over person_rows
person_after(person_rows, old) ==
    IF person_rows = <<>> THEN old ELSE <<person_rows[Len(person_rows)]>>

\* lines 80-84 on the received list, for row r, with `person` as it was.
\* Gives the records appended to succeeded; the caller handles the
\* UnboundLocalError of line 82.
rows_to_extend(received, r, old) ==
    LET person_rows == [k \in 1..Len(received) |-> update(received[k], r)]
        p == person_after(person_rows, old)
    IN IF ~Truthy(p[1]) THEN <<user_to_person(r)>> ELSE person_rows

\* lines 78-84: poll returned True, recv, tag, extend
MainRecv ==
    /\ pc = "poll"
    /\ toMain # <<>>
    /\ LET received == Head(toMain).list
           bound == person_after([k \in 1..Len(received) |-> update(received[k], idx)], person)
       IN /\ toMain' = Tail(toMain)
          /\ gotEmpty' = IF received = <<>> THEN gotEmpty \cup {idx} ELSE gotEmpty
          /\ IF bound = Unbound
             THEN \* line 82 reads a local that was never assigned
                  /\ pc' = "raised"
                  /\ UNCHANGED <<idx, succeeded, person>>
             ELSE /\ person' = bound
                  /\ succeeded' = succeeded \o rows_to_extend(received, idx, person)
                  /\ idx' = idx + 1
                  /\ pc' = "loop"
    /\ UNCHANGED <<nvars, gvars, ivars, tvars, rows, timeouts, toWorker, procs, timedOut>>

\* line 78: poll(TIMEOUT) found nothing for TIMEOUT seconds and returned False
MainPollFalse ==
    /\ pc = "poll"
    /\ toMain = <<>>
    /\ pc' = "else"
    /\ timedOut' = timedOut \cup {idx}
    /\ UNCHANGED <<nvars, gvars, ivars, tvars, rows, idx, succeeded, timeouts, person, toWorker, toMain, procs, gotEmpty>>

\* lines 86-91: proc.terminate() sends SIGTERM to the current worker and
\* returns without waiting for it; the two appends; a new worker on the
\* same pipe end, and its True
MainRestart ==
    /\ pc = "else"
    /\ procs' = Append([procs EXCEPT ![Len(procs)].signalled = TRUE], NewProc)
    /\ timeouts' = Append(timeouts, idx)
    /\ succeeded' = Append(succeeded, user_to_person(idx))
    /\ toWorker' = Append(toWorker, MsgTrue)
    /\ idx' = idx + 1
    /\ pc' = "loop"
    /\ UNCHANGED <<nvars, gvars, ivars, tvars, rows, person, toMain, gotEmpty, timedOut>>

\* lines 92-93: the rows are exhausted
MainReturn ==
    /\ pc = "loop"
    /\ idx > Len(rows)
    /\ toWorker' = Append(toWorker, MsgFalse)
    /\ pc' = "done"
    /\ UNCHANGED <<nvars, gvars, ivars, tvars, rows, idx, succeeded, timeouts, person, toMain, procs, gotEmpty, timedOut>>

\* _parse_process lines 25-32: conn.recv() and the match on what came
WorkerRecv(w) ==
    /\ procs[w].st = "recv"
    /\ toWorker # <<>>
    /\ LET data == Head(toWorker)
       IN procs' = [procs EXCEPT ![w] =
              IF data.t = "True" THEN @
              ELSE IF data.t = "False" THEN [@ EXCEPT !.st = "returned"]
              ELSE [@ EXCEPT !.st = "parsing", !.row = data.row]]
    /\ toWorker' = Tail(toWorker)
    /\ UNCHANGED <<nvars, gvars, ivars, tvars, rows, pc, idx, succeeded, timeouts, person, toMain, gotEmpty, timedOut>>

\* _parse_process lines 33-34: the parse finished, the list is sent
WorkerSend(w) ==
    /\ procs[w].st = "parsing"
    /\ ~rows[procs[w].row].runaway
    /\ toMain' = Append(toMain, person_list(procs[w].row))
    /\ procs' = [procs EXCEPT ![w].st = "recv", ![w].row = 0]
    /\ UNCHANGED <<nvars, gvars, ivars, tvars, rows, pc, idx, succeeded, timeouts, person, toWorker, gotEmpty, timedOut>>

\* SIGTERM reaches the process
WorkerDie(w) ==
    /\ procs[w].signalled
    /\ procs[w].st \in {"recv", "parsing"}
    /\ procs' = [procs EXCEPT ![w].st = "dead", ![w].row = 0]
    /\ UNCHANGED <<nvars, gvars, ivars, tvars, rows, pc, idx, succeeded, timeouts, person, toWorker, toMain, gotEmpty, timedOut>>

Main ==
    \/ MainStart
    \/ MainRow
    \/ MainRecv
    \/ MainPollFalse
    \/ MainRestart
    \/ MainReturn

Worker(w) ==
    \/ WorkerRecv(w)
    \/ WorkerSend(w)
    \/ WorkerDie(w)

Next ==
    \/ Main
    \/ \E w \in 1..Len(procs) : Worker(w)

Spec == Init /\ [][Next]_vars

(***************************************************************************)
(* Part II.  The name parser                                               *)
(*                                                                         *)
(* A Python str is a sequence of one-character strings, so that the        *)
(* regular expressions, joins and replacements of the code are computed.   *)
(***************************************************************************)

\* maximum number of Authors in a list handed to _post_clean
MaxAuthors == 2

\* name_parser.py line 13
STOP_WORDS ==
    {<<"A", "s", "s", "o", "c", "i", "a", "t", "i", "o", "n">>,
     <<"I", "n", "s", "t", "i", "t", "u", "t", "e">>,
     <<"D", "i", "r", "e", "c", "t", "o", "r">>,
     <<"D", "e", "p", "a", "r", "t", "m", "e", "n", "t">>,
     <<"F", "a", "c", "u", "l", "t", "y">>,
     <<"S", "t", "u", "d", "e", "n", "t">>,
     <<"R", "e", "s", "e", "a", "r", "c", "h">>,
     <<"L", "a", "b", "o", "r", "a", "t", "o", "r", "y">>,
     <<"P", "a", "n", "e", "l">>,
     <<"G", "r", "o", "u", "p">>,
     <<"I", "n", "c">>,
     <<"U", "n", "i", "v", "e", "r", "s", "i", "t", "y">>,
     <<"O", "r", "g", "a", "n", "i", "z", "a", "t", "i", "o", "n">>,
     <<"F", "o", "u", "n", "d", "a", "t", "i", "o", "n">>,
     <<"O", "f", "f", "i", "c", "e">>,
     <<"M", "e", "d", "i", "c", "a", "l">>,
     <<"H", "e", "a", "l", "t", "h">>,
     <<"S", "y", "s", "t", "e", "m">>,
     <<"C", "o", "u", "n", "c", "i", "l">>,
     <<"F", "u", "n", "d">>,
     <<"C", "l", "u", "b">>,
     <<"U", "S", "D", "A">>,
     <<"N", "e", "t", "w", "o", "r", "k">>,
     <<"P", "h", "i", "l", "a", "n", "t", "h", "r", "o", "p", "y">>,
     <<"C", "e", "n", "t", "e", "r">>,
     <<"L", "i", "b", "r", "a", "r", "i", "a", "n">>,
     <<"C", "l", "i", "n", "i", "c">>,
     <<"G", "o", "v", "e", "r", "n", "m", "e", "n", "t">>,
     <<"C", "o", "m", "m", "u", "n", "i", "t", "y">>,
     <<"P", "r", "a", "c", "t", "i", "t", "i", "o", "n", "e", "r", "s">>,
     <<"S", "e", "r", "v", "i", "c", "e", "s">>,
     <<"A", "c", "a", "d", "e", "m", "i", "c">>,
     <<"R", "e", "p", "o", "s", "i", "t", "o", "r", "y">>,
     <<"S", "t", "u", "d", "e", "n", "t", "s">>,
     <<"M", "e", "m", "b", "e", "r", "s">>,
     <<"S", "c", "h", "o", "o", "l">>}

\* name_parser.py line 15, r'Professor|Dr\.?|Dean': the alternatives; Dr\.?
\* is listed by its mandatory part, the optional period follows it
TITLES ==
    {<<"P", "r", "o", "f", "e", "s", "s", "o", "r">>, <<"D", "r">>, <<"D", "e", "a", "n">>}

\* name_parser.py line 17, r'Jr\.?|III'
SUFFIXES ==
    {<<"J", "r">>, <<"I", "I", "I">>}

\* str.startswith
StartsWith(s, prefix) ==
    /\ Len(s) >= Len(prefix)
    /\ SubSeq(s, 1, Len(prefix)) = prefix

\* pattern.match(s) for a pattern that is an alternation of literals, each
\* with at most an optional last character: match() anchors at the start of
\* s only, so it succeeds when s begins with one of the alternatives
regex_match(alternatives, s) ==
    \E alt \in alternatives : StartsWith(s, alt)

\* sep.join(parts)
RECURSIVE join(_, _)
join(sep, parts) ==
    IF parts = <<>> THEN <<>>
    ELSE IF Len(parts) = 1 THEN parts[1]
    ELSE parts[1] \o sep \o join(sep, Tail(parts))

\* s.replace(old, '') for a one-character old
remove_char(s, old) == SelectSeq(s, LAMBDA c : c # old)

\* set(tokens)
ToSet(tokens) == {tokens[k] : k \in 1..Len(tokens)}

\* Author.__init__ with last_first never set
Author_first_name_first(name_type) ==
    [type |-> IF name_type \in {"an_full", "an_full_lfo"} THEN "full" ELSE "init",
     last_first |-> FALSE,
     first_name |-> <<>>, initials |-> <<>>, last_name |-> <<>>]

\* Author.__init__ (lines 39-45): the form and the order of the name come
\* from the alias of the grammar, the three lists of tokens start empty
Author(name_type) ==
    [type |-> IF name_type \in {"an_full", "an_full_lfo"} THEN "full" ELSE "init",
     last_first |-> name_type \in {"an_full_lfo", "an_init_lfo"},
     first_name |-> <<>>, initials |-> <<>>, last_name |-> <<>>]

\* the Author with its three lists of name tokens assigned
with_names(author, first_name, initials, last_name) ==
    [author EXCEPT !.first_name = first_name, !.initials = initials,
                   !.last_name = last_name]

\* the body of the for loop with the stop words looked for in last_name only
post_clean_author_last_name_only(author) ==
    IF (STOP_WORDS \cap ToSet(author.last_name)) # {}
    THEN \* lines 131-136
         with_names(author, <<>>, <<>>,
                SelectSeq(author.first_name \o <<join(<<>>, author.initials)>>
                              \o author.last_name,
                          LAMBDA n : n # <<>>))
    ELSE LET titled == /\ author.first_name # <<>>
                       /\ regex_match(TITLES, author.first_name[1])
             \* line 140
             first_name == IF titled THEN Tail(author.first_name)
                           ELSE author.first_name
         IN IF titled /\ first_name = <<>> /\ author.initials = <<>>
            THEN \* lines 141-143
                 with_names(author, <<>>, <<>>, <<>>)
            ELSE LET \* line 145
                     initials == [k \in 1..Len(author.initials) |->
                                     remove_char(author.initials[k], ".")]
                 IN IF /\ Len(author.last_name) = 1
                       /\ regex_match(SUFFIXES, author.last_name[1])
                    THEN \* lines 149-150
                         with_names(author, <<>>, initials, first_name \o author.last_name)
                    ELSE with_names(author, first_name, initials, author.last_name)

\* _post_clean, the body of the for loop (lines 129-150) for one Author:
\* the Author as the loop leaves it
post_clean_author(author) ==
    IF (STOP_WORDS \cap ToSet(author.last_name)) # {}
          \/ (STOP_WORDS \cap ToSet(author.first_name)) # {}
    THEN \* lines 131-136
         with_names(author, <<>>, <<>>,
                SelectSeq(author.first_name \o <<join(<<>>, author.initials)>>
                              \o author.last_name,
                          LAMBDA n : n # <<>>))
    ELSE LET titled == /\ author.first_name # <<>>
                       /\ regex_match(TITLES, author.first_name[1])
             \* line 140
             first_name == IF titled THEN Tail(author.first_name)
                           ELSE author.first_name
         IN IF titled /\ first_name = <<>> /\ author.initials = <<>>
            THEN \* lines 141-143
                 with_names(author, <<>>, <<>>, <<>>)
            ELSE LET \* line 145
                     initials == [k \in 1..Len(author.initials) |->
                                     remove_char(author.initials[k], ".")]
                 IN IF /\ Len(author.last_name) = 1
                       /\ regex_match(SUFFIXES, author.last_name[1])
                    THEN \* lines 149-150
                         with_names(author, <<>>, initials, first_name \o author.last_name)
                    ELSE with_names(author, first_name, initials, author.last_name)

\* line 151 without its filter
post_clean_keep_all(authors_) ==
    [k \in 1..Len(authors_) |-> post_clean_author(authors_[k])]

\* _post_clean (lines 126-151)
_post_clean(authors_) ==
    SelectSeq([k \in 1..Len(authors_) |-> post_clean_author(authors_[k])],
              LAMBDA a : a.last_name # <<>>)

\* tokens the grammar can put into an Author: NAME_PART and INITIAL matches
w_Heath == <<"H", "e", "a", "t", "h">>
w_Krandall == <<"K", "r", "a", "n", "d", "a", "l", "l">>
w_Dr == <<"D", "r">>
w_Dean == <<"D", "e", "a", "n">>
w_Drew == <<"D", "r", "e", "w">>
w_Institute == <<"I", "n", "s", "t", "i", "t", "u", "t", "e">>
w_Jr == <<"J", "r">>
w_Jrue == <<"J", "r", "u", "e">>
i_C == <<"C", ".">>
i_E == <<"E">>

\* the Authors _post_clean is tried on: every combination of these name
\* parts that unpack_tree can produce (a last name, and a first name or
\* initials)
PoolFirst ==
    {<<>>, <<w_Heath>>, <<w_Dr>>, <<w_Dr, w_Heath>>, <<w_Dr, w_Dean>>, <<w_Drew>>,
     <<w_Institute>>}
PoolInitials == {<<>>, <<i_C, i_E>>}
PoolLast ==
    {<<w_Krandall>>, <<w_Jr>>, <<w_Jrue>>, <<w_Institute>>, <<w_Krandall, w_Jr>>}

AuthorPool ==
    {with_names(Author("an_full"), f, i, l) :
        f \in PoolFirst, i \in PoolInitials, l \in PoolLast}
        \ {with_names(Author("an_full"), <<>>, <<>>, l) : l \in PoolLast}

AuthorLists == UNION {[1..n -> AuthorPool] : n \in 1..MaxAuthors}

\* the variables of Part I, at rest while the parser alone is looked at
PartIIdle ==
    /\ rows = <<>>
    /\ pc = "idle"
    /\ idx = 1
    /\ succeeded = <<>>
    /\ timeouts = <<>>
    /\ person = Unbound
    /\ toWorker = <<>>
    /\ toMain = <<>>
    /\ procs = <<>>
    /\ gotEmpty = {}
    /\ timedOut = {}

\* no call of parse_many made on the parser, no ElementsObjectID in use
OthersIdle ==
    /\ errors = <<>>
    /\ list_of_names = <<>>
    /\ position = 0
    /\ yielded = <<>>
    /\ calls = 0
    /\ mark = 0
    /\ used = <<>>
    /\ minted = <<>>
    /\ parse_tree = <<>>

\* no call of parse_one or parse_names made
NamesIdle ==
    /\ names = <<>>
    /\ user = <<>>
    /\ parsed = <<>>
    /\ raised = "none"

InitClean ==
    /\ PartIIdle
    /\ OthersIdle
    /\ NamesIdle
    /\ op = "none"
    /\ authors \in AuthorLists
    /\ result = <<>>
    /\ cleaned = <<>>

\* a call parser._post_clean(authors): the Authors of the caller's list are
\* changed in place, the list returned holds those that kept a last name
PostClean ==
    /\ op = "none"
    /\ op' = "_post_clean"
    /\ authors' = post_clean_keep_all(authors)
    /\ result' = _post_clean(authors)
    /\ cleaned' = _post_clean(authors)
    /\ parsed' = authors
    /\ UNCHANGED <<pvars, gvars, ivars, tvars, names, user, raised>>

\* a second call, on the list the first call returned
PostCleanAgain ==
    /\ op = "_post_clean"
    /\ op' = "_post_clean again"
    /\ authors' = post_clean_keep_all(result)
    /\ result' = _post_clean(result)
    /\ UNCHANGED <<pvars, gvars, ivars, tvars, cleaned, names, user, parsed, raised>>

NextClean ==
    \/ PostClean
    \/ PostCleanAgain

SpecClean == InitClean /\ [][NextClean]_vars

(***************************************************************************)
(* Claims about _post_clean (checked under SpecClean)                      *)
(***************************************************************************)

PostCleanReturned == op \in {"_post_clean", "_post_clean again"}

\* C9: every Author in the list _post_clean returns has a non-empty
\* last_name (as a list and as the joined string), and the Authors of the
\* cleaned list whose last_name is empty are absent from it: the returned
\* list has as many Authors as kept a last name.
C9_LastNameNonEmpty ==
    PostCleanReturned =>
        /\ \A k \in 1..Len(result) :
               /\ result[k].last_name # <<>>
               /\ join(<<" ">>, result[k].last_name) # <<>>
        /\ Len(result) =
               Cardinality({k \in 1..Len(authors) : authors[k].last_name # <<>>})

\* C9 witness: a call returned, having dropped an Author and kept another
C9_Witness ==
    /\ op = "_post_clean"
    /\ Len(result) = 1
    /\ Len(authors) = 2

\* C10 (as claimed): a second _post_clean on the list the first one returned
\* returns the same Authors with the same first_name, initials, last_name.
C10_Idempotent ==
    op = "_post_clean again" => result = cleaned

\* some token of first_name or last_name is a stop word
HasStopWord(a) ==
    \E k \in 1..Len(a.first_name \o a.last_name) :
        (a.first_name \o a.last_name)[k] \in STOP_WORDS

\* the tokens of first_name, the initials joined if there are any, the
\* tokens of last_name
MergedName(a) ==
    a.first_name \o (IF a.initials # <<>> THEN <<join(<<>>, a.initials)>> ELSE <<>>)
        \o a.last_name

\* C20: _post_clean leaves an Author that has a stop word among the tokens of
\* first_name or last_name with first_name and initials empty and last_name
\* the old first_name, the old initials joined (if any) and the old
\* last_name, titles, periods and suffixes left as they were; an Author
\* with no stop word is not merged this way: its initials stay initials, and
\* its names end up merged only where the suffix step does it.
C20_CorporateMerge ==
    op = "_post_clean" =>
        \A k \in 1..Len(parsed) :
            IF HasStopWord(parsed[k])
            THEN /\ authors[k].first_name = <<>>
                 /\ authors[k].initials = <<>>
                 /\ authors[k].last_name = MergedName(parsed[k])
            ELSE /\ Len(authors[k].initials) = Len(parsed[k].initials)
                 /\ (/\ authors[k].first_name = <<>>
                     /\ authors[k].initials = <<>>
                     /\ authors[k].last_name = MergedName(parsed[k])) =>
                        /\ Len(parsed[k].last_name) = 1
                        /\ regex_match(SUFFIXES, parsed[k].last_name[1])

\* _post_clean has merged an Author with a title, initials with a period
\* and the last name Institute
C20_Witness ==
    /\ op = "_post_clean"
    /\ Len(parsed) = 1
    /\ parsed[1].first_name = <<w_Dr, w_Heath>>
    /\ parsed[1].initials = <<i_C, i_E>>
    /\ parsed[1].last_name = <<w_Institute>>
    /\ authors[1].last_name = <<w_Dr, w_Heath, <<"C", ".", "E">>, w_Institute>>

\* the titles and the suffixes as the words of a vocabulary
TitleWords ==
    {<<"P", "r", "o", "f", "e", "s", "s", "o", "r">>, <<"D", "r">>, <<"D", "r", ".">>,
     <<"D", "e", "a", "n">>}
SuffixWords == {<<"J", "r">>, <<"J", "r", ".">>, <<"I", "I", "I">>}

\* the first token of first_name is a word of the title vocabulary
Titled(a) == a.first_name # <<>> /\ a.first_name[1] \in TitleWords

\* first_name with the title, if it starts with one, taken off
Untitled(a) == IF Titled(a) THEN Tail(a.first_name) ELSE a.first_name

\* the Author is dropped by the title step: nothing but a title before the
\* last name
TitleOnly(a) == Titled(a) /\ Untitled(a) = <<>> /\ a.initials = <<>>

\* the tokens of first_name are where they were or, by the suffix step, in
\* front of the last name
FirstNameIs(old, new, tokens) ==
    \/ new.first_name = tokens /\ new.last_name = old.last_name
    \/ new.first_name = <<>> /\ new.last_name = tokens \o old.last_name

\* C21: _post_clean removes the first token of the first_name of a
\* non-corporate Author if and only if the token is one of the titles
\* Professor, Dr, Dr., Dean (a token that only begins with a title is kept);
\* when that leaves first_name and initials empty, last_name is cleared and
\* the Author is dropped.
C21_TitleStripped ==
    op = "_post_clean" =>
        \A k \in 1..Len(parsed) :
            ~HasStopWord(parsed[k]) =>
                IF TitleOnly(parsed[k]) THEN authors[k].last_name = <<>>
                ELSE FirstNameIs(parsed[k], authors[k], Untitled(parsed[k]))

\* the suffix step may be looked at alone: the title step took off a word
\* of the vocabulary or nothing, and did not drop the Author
TitleStepAsClaimed(a) ==
    /\ ~TitleOnly(a)
    /\ a.first_name # <<>> => (regex_match(TITLES, a.first_name[1]) <=> Titled(a))

\* C22: for a non-corporate Author that the title step does not drop: if
\* last_name is exactly one token of the suffix vocabulary Jr, Jr., III,
\* then afterwards last_name is the old first_name followed by the old
\* last_name and first_name is empty, the initials kept without their
\* periods; otherwise first_name and last_name are left as they were.
C22_SuffixRepaired ==
    op = "_post_clean" =>
        \A k \in 1..Len(parsed) :
            (~HasStopWord(parsed[k]) /\ TitleStepAsClaimed(parsed[k])) =>
                /\ authors[k].initials =
                       [j \in 1..Len(parsed[k].initials) |->
                           remove_char(parsed[k].initials[j], ".")]
                /\ IF /\ Len(parsed[k].last_name) = 1
                      /\ parsed[k].last_name[1] \in SuffixWords
                   THEN /\ authors[k].first_name = <<>>
                        /\ authors[k].last_name =
                               Untitled(parsed[k]) \o parsed[k].last_name
                   ELSE /\ authors[k].first_name = Untitled(parsed[k])
                        /\ authors[k].last_name = parsed[k].last_name

(***************************************************************************)
(* Characters and the terminals of the grammar (author_grammar.py).        *)
(* The grammar is run by an Earley parser with a dynamic lexer: at a       *)
(* position of the text a terminal matches the one substring its regular   *)
(* expression matches there. A position is an index into the text; a       *)
(* matcher gives the position after the match, or 0 for no match.          *)
(***************************************************************************)

\* \p{Lu} and \p{Ll}, the letters of the model
UpperLetters == <<"A", "B", "C", "D", "E", "F", "G", "H", "I", "J", "K", "L", "M", "N", "O", "P", "Q", "R", "S", "T", "U", "V", "W", "X", "Y", "Z">>
LowerLetters == <<"a", "b", "c", "d", "e", "f", "g", "h", "i", "j", "k", "l", "m", "n", "o", "p", "q", "r", "s", "t", "u", "v", "w", "x", "y", "z">>
Lu == {UpperLetters[k] : k \in 1..Len(UpperLetters)}
Ll == {LowerLetters[k] : k \in 1..Len(LowerLetters)}

\* str.lower() of one character
lower(c) ==
    IF c \in Lu THEN LowerLetters[CHOOSE k \in 1..Len(UpperLetters) : UpperLetters[k] = c]
    ELSE c

\* the first position from i on whose character is not in class (greedy class+)
RECURSIVE RunEnd(_, _, _)
RunEnd(s, i, class) ==
    IF i <= Len(s) /\ s[i] \in class THEN RunEnd(s, i + 1, class) ELSE i

\* a literal at position i
MatchLit(s, i, lit) ==
    IF i + Len(lit) - 1 <= Len(s) /\ SubSeq(s, i, i + Len(lit) - 1) = lit
    THEN i + Len(lit) ELSE 0

\* the first of the alternatives (a sequence of literals) that matches at i
RECURSIVE MatchAlt(_, _, _)
MatchAlt(s, i, alts) ==
    IF alts = <<>> THEN 0
    ELSE IF MatchLit(s, i, Head(alts)) # 0 THEN MatchLit(s, i, Head(alts))
    ELSE MatchAlt(s, i, Tail(alts))

\* [\p{Lu}]([\p{Ll}]+[\p{Lu}])?[\p{Ll}']+ at i: the optional group is tried
\* first, and given up when the rest does not match with it
MatchWord(s, i) ==
    IF i <= Len(s) /\ s[i] \in Lu
    THEN LET j == RunEnd(s, i + 1, Ll)
             with_group ==
                 IF j > i + 1 /\ j <= Len(s) /\ s[j] \in Lu
                       /\ RunEnd(s, j + 1, Ll \cup {"'"}) > j + 1
                 THEN RunEnd(s, j + 1, Ll \cup {"'"}) ELSE 0
             e == RunEnd(s, i + 1, Ll \cup {"'"})
         IN IF with_group # 0 THEN with_group
            ELSE IF e > i + 1 THEN e ELSE 0
    ELSE 0

\* author_grammar.py line 25, the particles of NAME_PART in their order
PARTICLES ==
    <<<<"E", "l">>,
      <<"V", "o", "n">>,
      <<"D", "e">>,
      <<"D", "e", "l">>,
      <<"d", "e">>,
      <<"v", "o", "n">>,
      <<"d", "e", "l">>,
      <<"e", "l">>,
      <<"o", "f">>>>

\* the first form of NAME_PART (line 25) at i: the first of the particles
\* alts that is followed by one space and a capitalised word
RECURSIVE MatchParticle(_, _, _)
MatchParticle(s, i, alts) ==
    IF alts = <<>> THEN 0
    ELSE LET p == MatchLit(s, i, Head(alts))
         IN IF p # 0 /\ p + 1 <= Len(s) /\ s[p] = " " /\ s[p + 1] \in Lu
                  /\ RunEnd(s, p + 2, Ll \cup {"'"}) > p + 2
            THEN RunEnd(s, p + 2, Ll \cup {"'"})
            ELSE MatchParticle(s, i, Tail(alts))

\* NAME_PART (line 25) at i: particle, one space, capitalised word; else a
\* word, with a hyphen and a second word when they follow
NAME_PART(s, i) ==
    LET particle_form == MatchParticle(s, i, PARTICLES)
        w == MatchWord(s, i)
    IN IF particle_form # 0 THEN particle_form
       ELSE IF w = 0 THEN 0
       ELSE IF w <= Len(s) /\ s[w] = "-" /\ MatchWord(s, w + 1) # 0
       THEN MatchWord(s, w + 1)
       ELSE w

\* INITIAL (line 21): /[A-Z]\.?/
INITIAL(s, i) ==
    IF i <= Len(s) /\ s[i] \in Lu
    THEN IF i + 1 <= Len(s) /\ s[i + 1] = "." THEN i + 2 ELSE i + 1
    ELSE 0

\* SUFFIX (line 23): /Jr\.?|III/
SUFFIX(s, i) ==
    LET jr == MatchLit(s, i, <<"J", "r">>)
    IN IF jr # 0 THEN (IF jr <= Len(s) /\ s[jr] = "." THEN jr + 1 ELSE jr)
       ELSE MatchLit(s, i, <<"I", "I", "I">>)

\* author_grammar.py line 27, the alternatives of DEGREE in their order
DEGREES ==
    <<<<"M", "P", "H">>,
      <<"D", "O">>,
      <<"M", "D">>,
      <<"M", "E", "d">>,
      <<"F", "A", "C", "P">>,
      <<"M", "S", "c", "P", "T">>,
      <<"E", "d", "D">>,
      <<"M", "S">>,
      <<"P", "h", "D">>,
      <<"M", "P", "P">>,
      <<"D", "N">>,
      <<"L", "C", "S", "W">>,
      <<"E", "P", "F", "L">>>>

\* DEGREE (line 27)
DEGREE(s, i) == MatchAlt(s, i, DEGREES)

\* _WHITESPACE (line 29): /[ ]+/
WHITESPACE(s, i) ==
    IF RunEnd(s, i, {" "}) > i THEN RunEnd(s, i, {" "}) ELSE 0

\* the text s[i .. e-1] of a match
Text(s, i, e) == SubSeq(s, i, e - 1)

(***************************************************************************)
(* The grammar (author_grammar.py lines 2-19) as the parser runs it with   *)
(* ambiguity='explicit': each rule, at a position of the text, gives every *)
(* derivation that starts there, as the position it ends at (e) and the    *)
(* tree it builds (t). Tokens of _WHITESPACE and of the quoted literals    *)
(* are not kept in the trees; an absent [optional] leaves one None for     *)
(* each kept symbol in it.                                                 *)
(***************************************************************************)

\* the nodes of a parse tree: kind "Rule" is a Tree whose data is the rule's
\* name as a Token, kind "Alias" a Tree whose data is the alias, a str
Token(type, value) ==
    [kind |-> "Token", data |-> type, value |-> value, children |-> <<>>]
None ==
    [kind |-> "None", data |-> "None", value |-> <<>>, children |-> <<>>]
Tree(kind, data, children) ==
    [kind |-> kind, data |-> data, value |-> <<>>, children |-> children]

\* line 31, %ignore _WHITESPACE: a terminal may start at i or after the
\* whitespace that starts at i
Skip(s, i) == {i} \cup ({WHITESPACE(s, i)} \ {0})

\* the rule, the terminal or the prefix of a rule that a name stands for in
\* the grammar (defined below, after the rules)
RECURSIVE rule(_, _, _)

\* the matches of a kept terminal from i
Kept(type, s, i) ==
    {[e |-> rule(type, s, p), t |-> Token(type, Text(s, p, rule(type, s, p)))] :
        p \in {q \in Skip(s, i) : rule(type, s, q) # 0}}

\* the ends of a quoted literal from i
Lit(s, i, lit) == {MatchLit(s, p, lit) : p \in Skip(s, i)} \ {0}

\* the ends of a _WHITESPACE the rule asks for at i
WS(s, i) == {WHITESPACE(s, i)} \ {0}

\* line 19, initials: INITIAL [INITIAL INITIAL?]
initials(s, i) ==
    LET one == Kept("INITIAL", s, i)
        two == UNION {{[e |-> b.e, t |-> <<a.t, b.t>>] :
                          b \in Kept("INITIAL", s, a.e)} : a \in one}
        three == UNION {{[e |-> c.e, t |-> Append(ab.t, c.t)] :
                            c \in Kept("INITIAL", s, ab.e)} : ab \in two}
    IN {[e |-> a.e, t |-> Tree("Rule", "initials", <<a.t, None, None>>)] : a \in one}
       \cup {[e |-> x.e, t |-> Tree("Rule", "initials", x.t)] : x \in two \cup three}

\* line 15, (_WHITESPACE NAME_PART)* from i, after the tokens toks
RECURSIVE name_parts(_, _, _)
name_parts(s, i, toks) ==
    {[e |-> i, t |-> toks]}
    \cup UNION {UNION {name_parts(s, n.e, Append(toks, n.t)) :
                          n \in Kept("NAME_PART", s, w)} : w \in WS(s, i)}

\* line 15, author_name: NAME_PART (_WHITESPACE NAME_PART)* [","? _WHITESPACE SUFFIX]
author_name(s, i) ==
    LET heads == UNION {name_parts(s, n.e, <<n.t>>) :
                           n \in Kept("NAME_PART", s, i)}
        suffixed(h) ==
            UNION {UNION {{[e |-> x.e, t |-> Append(h.t, x.t)] :
                              x \in Kept("SUFFIX", s, w)} : w \in WS(s, c)} :
                      c \in {h.e} \cup Lit(s, h.e, <<",">>)}
    IN UNION {{[e |-> x.e, t |-> Tree("Rule", "author_name", x.t)] :
                  x \in {[e |-> h.e, t |-> Append(h.t, None)]} \cup suffixed(h)} :
              h \in heads}

\* line 17, ("," _WHITESPACE? DEGREE)* from i, after the tokens toks
RECURSIVE more_degrees(_, _, _)
more_degrees(s, i, toks) ==
    {[e |-> i, t |-> toks]}
    \cup UNION {UNION {more_degrees(s, d.e, Append(toks, d.t)) :
                          d \in Kept("DEGREE", s, c)} : c \in Lit(s, i, <<",">>)}

\* line 17, degrees: ("," | _WHITESPACE) DEGREE ("," _WHITESPACE? DEGREE)*
degrees(s, i) ==
    {[e |-> x.e, t |-> Tree("Rule", "degrees", x.t)] :
        x \in UNION {UNION {more_degrees(s, d.e, <<d.t>>) :
                               d \in Kept("DEGREE", s, c)} :
                        c \in Lit(s, i, <<",">>) \cup WS(s, i)}}

\* the trailing degrees? of the four forms of single_author: the trees of
\* alias for the children found (bodies), without and with degrees
with_degrees(s, alias, bodies) ==
    UNION {{[e |-> b.e, t |-> Tree("Alias", alias, b.t)]}
              \cup {[e |-> d.e, t |-> Tree("Alias", alias, Append(b.t, d.t))] :
                       d \in rule("degrees", s, b.e)} : b \in bodies}

\* line 10: author_name [_WHITESPACE initials] _WHITESPACE author_name degrees? -> an_full
an_full(s, i) ==
    with_degrees(s, "an_full",
        UNION {UNION {UNION {{[e |-> b.e, t |-> <<a.t, m.t, b.t>>] :
                                 b \in rule("author_name", s, w)} : w \in WS(s, m.e)} :
                         m \in {[e |-> a.e, t |-> None]}
                                  \cup UNION {rule("initials", s, w) : w \in WS(s, a.e)}} :
                  a \in rule("author_name", s, i)})

\* line 11: author_name "," _WHITESPACE? author_name [_WHITESPACE initials] degrees? -> an_full_lfo
an_full_lfo(s, i) ==
    with_degrees(s, "an_full_lfo",
        UNION {UNION {UNION {{[e |-> m.e, t |-> <<a.t, b.t, m.t>>] :
                                 m \in {[e |-> b.e, t |-> None]}
                                          \cup UNION {rule("initials", s, w) : w \in WS(s, b.e)}} :
                                b \in rule("author_name", s, c)} : c \in Lit(s, a.e, <<",">>)} :
                  a \in rule("author_name", s, i)})

\* line 12: initials _WHITESPACE author_name degrees? -> an_init
an_init(s, i) ==
    with_degrees(s, "an_init",
        UNION {UNION {{[e |-> a.e, t |-> <<n.t, a.t>>] : a \in rule("author_name", s, w)} :
                         w \in WS(s, n.e)} : n \in rule("initials", s, i)})

\* line 13: author_name ("," | _WHITESPACE) initials degrees? -> an_init_lfo
an_init_lfo(s, i) ==
    with_degrees(s, "an_init_lfo",
        UNION {UNION {{[e |-> n.e, t |-> <<a.t, n.t>>] : n \in rule("initials", s, c)} :
                         c \in Lit(s, a.e, <<",">>) \cup WS(s, a.e)} :
                  a \in rule("author_name", s, i)})

\* lines 10-13, single_author
single_author(s, i) ==
    rule("an_full", s, i) \cup rule("an_full_lfo", s, i) \cup rule("an_init", s, i) \cup rule("an_init_lfo", s, i)

\* lines 5-6: after the single_authors kids, (sep single_author)+ from i
RECURSIVE separated(_, _, _, _)
separated(s, i, sep, kids) ==
    UNION {UNION {{[e |-> b.e, t |-> Append(kids, b.t)]}
                     \cup separated(s, b.e, sep, Append(kids, b.t)) :
                     b \in rule("single_author", s, c)} : c \in Lit(s, i, sep)}

\* line 7, the words of the conjunction
CONJUNCTIONS ==
    {<<"a", "n", "d">>, <<"w", "i", "t", "h">>, <<"A", "n", "d">>,
     <<"W", "i", "t", "h">>, <<"&">>}

\* line 7: after the single_authors kids,
\* ("," _WHITESPACE? single_author)* ","? _WHITESPACE (conjunction) _WHITESPACE single_author
RECURSIVE conjoined(_, _, _)
conjoined(s, i, kids) ==
    UNION {UNION {UNION {UNION {{[e |-> b.e, t |-> Append(kids, b.t)] :
                                    b \in rule("single_author", s, w2)} : w2 \in WS(s, k)} :
                            k \in UNION {Lit(s, w, word) : word \in CONJUNCTIONS}} :
                     w \in WS(s, c)} : c \in {i} \cup Lit(s, i, <<",">>)}
    \cup UNION {UNION {conjoined(s, b.e, Append(kids, b.t)) :
                          b \in rule("single_author", s, c)} : c \in Lit(s, i, <<",">>)}

\* lines 5-7, multiple_authors
multiple_authors(s, i) ==
    {[e |-> x.e, t |-> Tree("Rule", "multiple_authors", x.t)] :
        x \in UNION {separated(s, a.e, <<",">>, <<a.t>>)
                        \cup separated(s, a.e, <<";">>, <<a.t>>)
                        \cup conjoined(s, a.e, <<a.t>>) : a \in rule("single_author", s, i)}}

\* lines 2-3, authors, the start symbol: the trees of the whole text
authors_trees(s) ==
    {Tree("Rule", "authors", <<x.t>>) :
        x \in {y \in rule("single_author", s, 1) \cup rule("multiple_authors", s, 1) : y.e = Len(s) + 1}}

(***************************************************************************)
(* What the parser raises on a text with no derivation: UnexpectedEOF when *)
(* some derivation, cut short, covers the whole text, UnexpectedCharacters *)
(* when none gets that far. The prefix of a rule at i is the set of        *)
(* positions its derivations from i pass through.                          *)
(***************************************************************************)
Ends(derivations) == {x.e : x \in derivations}

initials_prefix(s, i) ==
    LET e1 == Ends(Kept("INITIAL", s, i))
        e2 == UNION {Ends(Kept("INITIAL", s, a)) : a \in e1}
        e3 == UNION {Ends(Kept("INITIAL", s, a)) : a \in e2}
    IN {i} \cup e1 \cup e2 \cup e3

author_name_prefix(s, i) ==
    LET heads == Ends(UNION {name_parts(s, n.e, <<>>) :
                                n \in Kept("NAME_PART", s, i)})
    IN {i} \cup heads \cup Ends(rule("author_name", s, i))
       \cup UNION {WS(s, h) \cup Lit(s, h, <<",">>)
                      \cup UNION {WS(s, c) : c \in Lit(s, h, <<",">>)} : h \in heads}

degrees_prefix(s, i) ==
    LET starts == Lit(s, i, <<",">>) \cup WS(s, i)
        ds == Ends(UNION {UNION {more_degrees(s, d.e, <<>>) :
                                    d \in Kept("DEGREE", s, c)} : c \in starts})
    IN {i} \cup starts \cup ds \cup UNION {Lit(s, d, <<",">>) : d \in ds}

single_author_prefix(s, i) ==
    LET named == Ends(rule("author_name", s, i))
        full ==
            UNION {UNION {{w} \cup rule("initials_prefix", s, w) \cup rule("author_name_prefix", s, w)
                             \cup UNION {UNION {{w2} \cup rule("author_name_prefix", s, w2) :
                                                   w2 \in WS(s, n)} :
                                            n \in Ends(rule("initials", s, w))} :
                             w \in WS(s, a)} : a \in named}
        full_lfo ==
            UNION {UNION {{c} \cup rule("author_name_prefix", s, c)
                             \cup UNION {UNION {{w} \cup rule("initials_prefix", s, w) :
                                                   w \in WS(s, b)} :
                                            b \in Ends(rule("author_name", s, c))} :
                             c \in Lit(s, a, <<",">>)} : a \in named}
        init ==
            rule("initials_prefix", s, i)
            \cup UNION {UNION {{w} \cup rule("author_name_prefix", s, w) : w \in WS(s, n)} :
                           n \in Ends(rule("initials", s, i))}
        init_lfo ==
            UNION {UNION {{c} \cup rule("initials_prefix", s, c) :
                             c \in Lit(s, a, <<",">>) \cup WS(s, a)} : a \in named}
        bodies ==
            Ends({x \in rule("single_author", s, i) :
                     x.t.children[Len(x.t.children)].data # "degrees"})
    IN rule("author_name_prefix", s, i) \cup full \cup full_lfo \cup init \cup init_lfo
       \cup UNION {rule("degrees_prefix", s, b) : b \in bodies}

multiple_authors_prefix(s, i) ==
    LET firsts == rule("single_author", s, i)
        chain(sep) ==
            Ends(firsts) \cup Ends(UNION {separated(s, a.e, sep, <<>>) : a \in firsts})
        listed(sep) ==
            UNION {UNION {{c} \cup rule("single_author_prefix", s, c) : c \in Lit(s, e, sep)} :
                      e \in chain(sep)}
        conj ==
            UNION {UNION {UNION {{w} \cup UNION {{k} \cup UNION {{w2} \cup rule("single_author_prefix", s, w2) :
                                                                    w2 \in WS(s, k)} :
                                                    k \in UNION {Lit(s, w, word) :
                                                                    word \in CONJUNCTIONS}} :
                                    w \in WS(s, c)} : c \in {e} \cup Lit(s, e, <<",">>)} :
                      e \in chain(<<",">>)}
    IN chain(<<",">>) \cup chain(<<";">>) \cup listed(<<",">>) \cup listed(<<";">>) \cup conj

\* the rule, the terminal or the prefix of a rule that a name stands for
rule(name, s, i) ==
    CASE name = "NAME_PART" -> NAME_PART(s, i)
      [] name = "INITIAL" -> INITIAL(s, i)
      [] name = "SUFFIX" -> SUFFIX(s, i)
      [] name = "DEGREE" -> DEGREE(s, i)
      [] name = "initials" -> initials(s, i)
      [] name = "author_name" -> author_name(s, i)
      [] name = "degrees" -> degrees(s, i)
      [] name = "an_full" -> an_full(s, i)
      [] name = "an_full_lfo" -> an_full_lfo(s, i)
      [] name = "an_init" -> an_init(s, i)
      [] name = "an_init_lfo" -> an_init_lfo(s, i)
      [] name = "single_author" -> single_author(s, i)
      [] name = "multiple_authors" -> multiple_authors(s, i)
      [] name = "initials_prefix" -> initials_prefix(s, i)
      [] name = "author_name_prefix" -> author_name_prefix(s, i)
      [] name = "degrees_prefix" -> degrees_prefix(s, i)
      [] name = "single_author_prefix" -> single_author_prefix(s, i)
      [] name = "multiple_authors_prefix" -> multiple_authors_prefix(s, i)

\* the positions in reached, and those after the whitespace ignored there
with_ignored(s, reached) == reached \cup UNION {Skip(s, p) : p \in reached}

authors_prefix(s) ==
    with_ignored(s, rule("single_author_prefix", s, 1)
                       \cup rule("multiple_authors_prefix", s, 1))

\* the exception of parser.parse(s) when s has no derivation
parse_error(s) ==
    IF Len(s) + 1 \in authors_prefix(s) THEN "UnexpectedEOF"
    ELSE "UnexpectedCharacters"

(***************************************************************************)
(* name_parser.py: score, RemoveAmbiguities, Author.unpack_tree            *)
(***************************************************************************)

\* score (lines 19-25): the number of children, summed over the subtrees
RECURSIVE score(_)
RECURSIVE score_all(_)
score(tree) ==
    IF tree.kind \in {"Rule", "Alias"}
    THEN Len(tree.children) + score_all(tree.children)
    ELSE 0
score_all(children) ==
    IF children = <<>> THEN 0
    ELSE score(Head(children)) + score_all(Tail(children))

\* RemoveAmbiguities (lines 27-34) over the derivations of the whole text:
\* the trees it may leave, those no other derivation outscores
RemoveAmbiguities(options) ==
    {t \in options : \A u \in options : score(u) <= score(t)}

\* the name setter without the case of a last name that comes first
set_name_first_name_first(author, value) ==
    IF author.last_name # <<>> THEN [author EXCEPT !.first_name = value]
    ELSE IF author.first_name # <<>> \/ author.initials # <<>>
    THEN [author EXCEPT !.last_name = value]
    ELSE [author EXCEPT !.first_name = value]

\* the name setter (lines 52-65)
set_name(author, value) ==
    IF author.last_name # <<>> THEN [author EXCEPT !.first_name = value]
    ELSE IF author.last_first THEN [author EXCEPT !.last_name = value]
    ELSE IF author.first_name # <<>> \/ author.initials # <<>>
    THEN [author EXCEPT !.last_name = value]
    ELSE [author EXCEPT !.first_name = value]

\* [t.value for t in tree.children if t]: None and the degrees are no tokens
token_values(children) ==
    LET tokens == SelectSeq(children, LAMBDA t : t.kind = "Token" /\ t.value # <<>>)
    IN [k \in 1..Len(tokens) |-> tokens[k].value]

\* add_name (lines 67-73)
add_name(author, tree) ==
    IF tree.kind = "Rule" /\ tree.data = "author_name"
    THEN set_name(author, token_values(tree.children))
    ELSE IF tree.kind = "Rule" /\ tree.data = "initials"
    THEN [author EXCEPT !.initials = token_values(tree.children)]
    ELSE author

\* Tree.iter_subtrees_topdown: the Trees of a tree, parents before children,
\* left to right
RECURSIVE iter_subtrees_topdown(_)
RECURSIVE subtrees_of_all(_)
iter_subtrees_topdown(tree) ==
    IF tree.kind \in {"Rule", "Alias"}
    THEN <<tree>> \o subtrees_of_all(tree.children)
    ELSE <<>>
subtrees_of_all(children) ==
    IF children = <<>> THEN <<>>
    ELSE iter_subtrees_topdown(Head(children)) \o subtrees_of_all(Tail(children))

\* the loop of unpack_tree (lines 80-89) over the subtrees left, with the
\* Authors made so far; author is the last of them
RECURSIVE unpack_from(_, _)
unpack_from(subtrees, authors_) ==
    IF subtrees = <<>> THEN authors_
    ELSE LET subtree == Head(subtrees)
             started == IF subtree.kind = "Alias"
                        THEN Append(authors_, Author(subtree.data))
                        ELSE authors_
         IN IF started = <<>> THEN unpack_from(Tail(subtrees), started)
            ELSE unpack_from(Tail(subtrees),
                             [started EXCEPT ![Len(started)] = add_name(@, subtree)])

\* Author.unpack_tree (lines 75-90)
unpack_tree(tree) == unpack_from(iter_subtrees_topdown(tree), <<>>)

(***************************************************************************)
(* name_parser.py: AuthorParser._pre_clean and parse_one                   *)
(***************************************************************************)

\* line 10, the alternatives of ACRONYMS
ACRONYMS ==
    {<<"M", "P", "H">>, <<"D", "O">>, <<"M", "D">>, <<"F", "A", "C", "P">>,
     <<"M", "S">>, <<"I", "I", "I">>, <<"D", "N", "P">>, <<"L", "C", "S", "W">>,
     <<"M", "P", "P">>, <<"E", "P", "F", "L">>}

\* line 111, [.,;:]
PUNCT == {".", ",", ";", ":"}

\* self.punct.search(s) (line 111): $ is the end of s, or the place before a
\* newline that ends s
punct_search(s) ==
    \/ Len(s) >= 1 /\ s[Len(s)] \in PUNCT
    \/ Len(s) >= 2 /\ s[Len(s)] = "\n" /\ s[Len(s) - 1] \in PUNCT

\* self.capital_names.findall(s) (line 113) from i on: the runs of four or
\* more capital letters, left to right
RECURSIVE findall_capital_names(_, _)
findall_capital_names(s, i) ==
    IF i > Len(s) THEN <<>>
    ELSE IF RunEnd(s, i, Lu) >= i + 4
    THEN <<Text(s, i, RunEnd(s, i, Lu))>> \o findall_capital_names(s, RunEnd(s, i, Lu))
    ELSE findall_capital_names(s, i + 1)

\* name.title() of a run of capital letters
title(name) == [k \in 1..Len(name) |-> IF k = 1 THEN name[k] ELSE lower(name[k])]

\* s.replace(old, new) from i on, for old not empty
RECURSIVE replace(_, _, _, _)
replace(s, i, old, new) ==
    IF i > Len(s) THEN <<>>
    ELSE IF MatchLit(s, i, old) # 0 THEN new \o replace(s, MatchLit(s, i, old), old, new)
    ELSE <<s[i]>> \o replace(s, i + 1, old, new)

\* the for loop of _pre_clean (lines 121-123) over the runs left
RECURSIVE title_case_names(_, _)
title_case_names(s, runs) ==
    IF runs = <<>> THEN s
    ELSE IF ~regex_match(ACRONYMS, Head(runs))
    THEN title_case_names(replace(s, 1, Head(runs), title(Head(runs))), Tail(runs))
    ELSE title_case_names(s, Tail(runs))

\* _pre_clean (lines 116-124)
_pre_clean(s) ==
    LET cut == IF punct_search(s) THEN SubSeq(s, 1, Len(s) - 1) ELSE s
    IN title_case_names(cut, findall_capital_names(cut, 1))

\* str.strip()
RECURSIVE strip(_)
strip(s) ==
    IF s = <<>> THEN s
    ELSE IF Head(s) \in {" ", "\n", "\t"} THEN strip(Tail(s))
    ELSE IF s[Len(s)] \in {" ", "\n", "\t"} THEN strip(SubSeq(s, 1, Len(s) - 1))
    ELSE s

\* Python's None where a value may be missing, and a value that is there
NoneValue == <<>>
Some(x) == <<x>>

\* line 164, the exceptions parse_one catches
caught_only_characters == {"UnexpectedCharacters"}
caught == {"UnexpectedCharacters", "UnexpectedEOF"}

\* line 164-165: parser.parse raised the exception error
parse_failed(error) ==
    IF error \in caught
    THEN {[raised |-> "none", value |-> <<NoneValue, Some([error |-> error])>>]}
    ELSE {[raised |-> error, value |-> <<>>]}

\* lines 161-165 for the text handed to parser.parse and its derivations
parse_text(text, trees) ==
    IF trees # {}
    THEN {[raised |-> "none", value |-> <<Some(unpack_tree(t)), NoneValue>>] :
             t \in RemoveAmbiguities(trees)}
    ELSE parse_failed(parse_error(text))

\* parse_one (lines 154-165) with pre_clean set: the ways the call may end,
\* as the exception that leaves it (raised) or the pair it returns (value);
\* there are several when derivations of the text tie for the highest score
parse_one(s) ==
    UNION {parse_text(text, authors_trees(text)) : text \in {strip(_pre_clean(s))}}

(***************************************************************************)
(* elements_types.py: ElementsPersonList                                   *)
(***************************************************************************)

\* str.upper() of one character
upper(c) ==
    IF c \in Ll THEN UpperLetters[CHOOSE k \in 1..Len(LowerLetters) : LowerLetters[k] = c]
    ELSE c

\* the initials of the user (lines 443-446)
user_initials(user_) ==
    IF user_.middle_name # <<>>
    THEN <<upper(user_.first_name[1]), upper(user_.middle_name[1])>>
    ELSE <<upper(user_.first_name[1])>>

\* check_name_matches without the comparison of the surnames (line 436)
check_name_matches_any_surname(user_, parsed_name) ==
    IF parsed_name.first_name # <<>>
    THEN \/ user_.first_name = join(<<" ">>, parsed_name.first_name)
         \/ user_.first_name = parsed_name.first_name[1]
    ELSE /\ parsed_name.initials # <<>>
         /\ \/ user_initials(user_) = join(<<>>, parsed_name.initials)
            \/ <<user_initials(user_)[1]>> = parsed_name.initials[1]

\* check_name_matches without the comparison with the first token (line 439)
check_name_matches_whole_first_name(user_, parsed_name) ==
    IF user_.last_name = join(<<" ">>, parsed_name.last_name)
    THEN IF parsed_name.first_name # <<>>
         THEN user_.first_name = join(<<" ">>, parsed_name.first_name)
         ELSE /\ parsed_name.initials # <<>>
              /\ \/ user_initials(user_) = join(<<>>, parsed_name.initials)
                 \/ <<user_initials(user_)[1]>> = parsed_name.initials[1]
    ELSE FALSE

\* check_name_matches without the comparison of the first initials (line 449)
check_name_matches_all_initials(user_, parsed_name) ==
    IF user_.last_name = join(<<" ">>, parsed_name.last_name)
    THEN IF parsed_name.first_name # <<>>
         THEN \/ user_.first_name = join(<<" ">>, parsed_name.first_name)
              \/ user_.first_name = parsed_name.first_name[1]
         ELSE /\ parsed_name.initials # <<>>
              /\ user_initials(user_) = join(<<>>, parsed_name.initials)
    ELSE FALSE

\* check_name_matches (lines 434-451) for a user with a first and a last
\* name; a middle_name of <<>> is one that is missing or empty
check_name_matches(user_, parsed_name) ==
    IF user_.last_name = join(<<" ">>, parsed_name.last_name)
    THEN IF parsed_name.first_name # <<>>
         THEN \/ user_.first_name = join(<<" ">>, parsed_name.first_name)
              \/ user_.first_name = parsed_name.first_name[1]
         ELSE /\ parsed_name.initials # <<>>
              /\ \/ user_initials(user_) = join(<<>>, parsed_name.initials)
                 \/ <<user_initials(user_)[1]>> = parsed_name.initials[1]
    ELSE FALSE

\* name_to_dict with the full name in the order of the parse
name_to_dict_parse_order(person_) ==
    LET surname == join(<<" ">>, person_.last_name)
        first == join(<<" ">>, person_.first_name)
        first_name == IF first # <<>> /\ person_.initials # <<>>
                      THEN first \o <<" ">> \o join(<<>>, person_.initials)
                      ELSE IF person_.initials # <<>> THEN join(<<>>, person_.initials)
                      ELSE first
    IN [first_name |-> first_name, surname |-> surname,
        full |-> IF first_name = <<>> THEN surname
                 ELSE IF person_.last_first THEN surname \o <<" ">> \o first_name
                 ELSE first_name \o <<" ">> \o surname]

\* name_to_dict (lines 453-461); first_name is the key 'first-name'
name_to_dict(person_) ==
    LET surname == join(<<" ">>, person_.last_name)
        first == join(<<" ">>, person_.first_name)
        first_name == IF first # <<>> /\ person_.initials # <<>>
                      THEN first \o <<" ">> \o join(<<>>, person_.initials)
                      ELSE IF person_.initials # <<>> THEN join(<<>>, person_.initials)
                      ELSE first
    IN [first_name |-> first_name, surname |-> surname,
        full |-> IF first_name # <<>> THEN first_name \o <<" ">> \o surname
                 ELSE surname]

\* the record of the user's own name (lines 469-471 and 481-483)
user_name_surname_first(user_) ==
    [first_name |-> user_.last_name, surname |-> user_.first_name,
     full |-> user_.last_name \o <<" ">> \o user_.first_name]
user_name(user_) ==
    [first_name |-> user_.first_name, surname |-> user_.last_name,
     full |-> user_.first_name \o <<" ">> \o user_.last_name]

\* the for loop of parse_names and what follows it (lines 475-483), over the
\* persons left
RECURSIVE export_always_with_user(_, _, _, _)
export_always_with_user(result_, user_, author_matched, names_to_export) ==
    IF result_ = <<>> THEN Append(names_to_export, user_name(user_))
    ELSE export_always_with_user(Tail(result_), user_, author_matched,
                                 Append(names_to_export, name_to_dict(Head(result_))))
\* the loop with the match looked for in the first person only
RECURSIVE export_first_only(_, _, _, _)
export_first_only(result_, user_, author_matched, names_to_export) ==
    IF result_ = <<>>
    THEN IF ~author_matched THEN Append(names_to_export, user_name(user_))
         ELSE names_to_export
    ELSE export_first_only(Tail(result_), user_,
                           \/ author_matched
                           \/ /\ names_to_export = <<>>
                              /\ check_name_matches(user_, Head(result_)),
                           Append(names_to_export, name_to_dict(Head(result_))))
RECURSIVE export_with_user(_, _, _, _)
export_with_user(result_, user_, author_matched, names_to_export) ==
    IF result_ = <<>>
    THEN IF ~author_matched THEN Append(names_to_export, user_name(user_))
         ELSE names_to_export
    ELSE export_with_user(Tail(result_), user_,
                          author_matched \/ check_name_matches(user_, Head(result_)),
                          Append(names_to_export, name_to_dict(Head(result_))))

\* parse_names (lines 463-486) from the pair parse_one returned; user_ is
\* None or a user
parse_names(pair, user_) ==
    IF pair[1] = NoneValue /\ user_ # NoneValue
    THEN <<user_name(user_[1])>>
    ELSE IF pair[2] = NoneValue /\ user_ # NoneValue
    THEN export_with_user(_post_clean(pair[1][1]), user_[1], FALSE, <<>>)
    ELSE IF pair[2] = NoneValue
    THEN LET result_ == _post_clean(pair[1][1])
         IN [k \in 1..Len(result_) |-> name_to_dict(result_[k])]
    ELSE <<>>

(***************************************************************************)
(* The specification of the calls parse_one(names) and                     *)
(* ElementsPersonList({...: names}, parser, user).parse_names(names), from *)
(* sample strings and users.                                               *)
(***************************************************************************)
n_HeathKrandall == <<"H", "e", "a", "t", "h", " ", "K", "r", "a", "n", "d", "a", "l", "l">>
n_Scenario == <<"L", "e", "d", "g", "e", "r", " ", "H", ",", " ", "B", "a", "r", " ", "H", ",", " ", "a", "n", "d", " ", "C", "E", " ", "H", "e", "a", "t", "h">>
n_Garbage == <<"#", "$", "%">>
n_DanglingAnd == <<"H", "e", "a", "t", "h", " ", "K", "r", "a", "n", "d", "a", "l", "l", " ", "a", "n", "d">>
n_Empty == <<>>
n_OneWord == <<"K", "r", "a", "n", "d", "a", "l", "l">>
n_DrKrandall == <<"D", "r", " ", "K", "r", "a", "n", "d", "a", "l", "l">>
n_Institute == <<"H", "u", "m", "a", "n", " ", "G", "e", "n", "o", "m", "e", " ", "I", "n", "s", "t", "i", "t", "u", "t", "e">>
n_KrandallH == <<"K", "r", "a", "n", "d", "a", "l", "l", ",", " ", "H", ".">>
n_KrandallHA == <<"K", "r", "a", "n", "d", "a", "l", "l", " ", "H", "A">>
n_TwoPersons == <<"P", "e", "n", "n", "y", " ", "P", "o", "m", "p", "i", "d", "o", "u", "r", " ", "a", "n", "d", " ", "H", "e", "a", "t", "h", " ", "K", "r", "a", "n", "d", "a", "l", "l">>
n_Capitals == <<"K", "R", "A", "N", "D", "A", "L", "L", ",", " ", "H", "E", "A", "T", "H">>
n_TrailingPeriod == <<"H", "e", "a", "t", "h", " ", "K", "r", "a", "n", "d", "a", "l", "l", ".">>
n_Junior == <<"H", "e", "a", "t", "h", " ", "K", "r", "a", "n", "d", "a", "l", "l", ",", " ", "J", "r">>
n_Semicolons == <<"H", " ", "K", "r", "a", "n", "d", "a", "l", "l", ";", " ", "P", " ", "P", "o", "m", "p", "i", "d", "o", "u", "r">>
n_BothOrders == <<"P", "e", "n", "n", "y", " ", "A", ".", " ", "P", "o", "m", "p", "i", "d", "o", "u", "r", ";", " ", "K", "r", "a", "n", "d", "a", "l", "l", ",", " ", "H", "e", "a", "t", "h">>
n_HeathTwice == <<"H", "e", "a", "t", "h", " ", "K", "r", "a", "n", "d", "a", "l", "l", ",", " ", "H", "e", "a", "t", "h", " ", "A", " ", "K", "r", "a", "n", "d", "a", "l", "l">>

n_PennyPompidour == <<"P", "e", "n", "n", "y", " ", "P", "o", "m", "p", "i", "d", "o", "u", "r">>

\* the words of a conjunction as a string may spell them
ConjunctionForms ==
    {<<"a", "n", "d">>, <<"A", "n", "d">>, <<"A", "N", "D">>,
     <<"w", "i", "t", "h">>, <<"W", "i", "t", "h">>, <<"W", "I", "T", "H">>, <<"&">>}

\* two names with a conjunction between them, with and without a comma
\* before it
ConjoinedNames ==
    {n_PennyPompidour \o comma \o <<" ">> \o word \o <<" ">> \o n_HeathKrandall :
        comma \in {<<>>, <<",">>}, word \in ConjunctionForms}

SampleNames ==
    {n_HeathKrandall, n_Scenario, n_Garbage, n_DanglingAnd,
     n_Empty, n_OneWord, n_DrKrandall, n_Institute,
     n_KrandallH, n_KrandallHA, n_TwoPersons, n_Capitals,
     n_TrailingPeriod, n_Junior, n_Semicolons, n_HeathTwice, n_BothOrders}
    \cup ConjoinedNames

u_Heath == <<"H", "e", "a", "t", "h">>
u_Krandall == <<"K", "r", "a", "n", "d", "a", "l", "l">>
u_Penny == <<"P", "e", "n", "n", "y">>
u_Pompidour == <<"P", "o", "m", "p", "i", "d", "o", "u", "r">>

\* the users: none, or a first and a last name with or without a middle name
SampleUsers ==
    {NoneValue,
     Some([first_name |-> u_Heath, middle_name |-> <<>>, last_name |-> u_Krandall]),
     Some([first_name |-> u_Heath, middle_name |-> <<"A">>, last_name |-> u_Krandall]),
     Some([first_name |-> u_Penny, middle_name |-> <<>>, last_name |-> u_Pompidour])}

InitNames ==
    /\ PartIIdle
    /\ OthersIdle
    /\ op = "none"
    /\ authors = <<>>
    /\ result = <<>>
    /\ cleaned = <<>>
    /\ names \in SampleNames
    /\ user \in SampleUsers
    /\ parsed = <<>>
    /\ raised = "none"

\* a call parser.parse_one(names)
ParseOne ==
    /\ op = "none"
    /\ op' = "parse_one"
    /\ \E outcome \in parse_one(names) :
          /\ raised' = outcome.raised
          /\ parsed' = outcome.value
    /\ UNCHANGED <<pvars, gvars, ivars, tvars, authors, result, cleaned, names, user>>

\* a call parse_names(names) of an ElementsPersonList with the user
ParseNames ==
    /\ op = "none"
    /\ op' = "parse_names"
    /\ \E outcome \in parse_one(names) :
          /\ raised' = outcome.raised
          /\ parsed' = outcome.value
          /\ result' = IF outcome.raised = "none"
                       THEN parse_names(outcome.value, user) ELSE <<>>
    /\ UNCHANGED <<pvars, gvars, ivars, tvars, authors, cleaned, names, user>>

NextNames ==
    \/ ParseOne
    \/ ParseNames

SpecNames == InitNames /\ [][NextNames]_vars

(***************************************************************************)
(* Claims about parse_one and parse_names (checked under SpecNames)        *)
(***************************************************************************)

\* the grammar accepts the pre-cleaned, stripped input
Accepted(s) == authors_trees(strip(_pre_clean(s))) # {}

\* C4: parse_one returns a pair with exactly one component None: a list of
\* Authors and None when the grammar accepts the pre-cleaned input, None and
\* a mapping with the key error when it accepts no derivation of it; no
\* exception leaves the call.
C4_ParseOneResult ==
    op = "parse_one" =>
        /\ raised = "none"
        /\ Len(parsed) = 2
        /\ (parsed[1] = NoneValue) # (parsed[2] = NoneValue)
        /\ (parsed[1] # NoneValue) <=> Accepted(names)
        /\ parsed[2] # NoneValue =>
              parsed[2][1].error \in {"UnexpectedCharacters", "UnexpectedEOF"}

\* parse_one has returned for an input that ends too early, and for one with
\* a character no terminal matches
C4_Witness ==
    /\ op = "parse_one"
    /\ raised = "none"
    /\ parsed[1] = NoneValue
    /\ parsed[2] = Some([error |-> "UnexpectedEOF"])
    /\ names = n_DanglingAnd

\* C5: parse_names with a user and a string the grammar rejects returns
\* exactly one record, the user's: first-name the user's first_name, surname
\* the user's last_name, full the two joined by one space.
C5_RejectedGivesOwner ==
    (op = "parse_names" /\ user # NoneValue /\ ~Accepted(names)) =>
        /\ raised = "none"
        /\ result = <<[first_name |-> user[1].first_name,
                       surname |-> user[1].last_name,
                       full |-> user[1].first_name \o <<" ">> \o user[1].last_name]>>

\* parse_names has returned for the garbage string and the user Heath Krandall
C5_Witness ==
    /\ op = "parse_names"
    /\ names = n_Garbage
    /\ user # NoneValue
    /\ user[1].first_name = u_Heath
    /\ Len(result) = 1
    /\ result[1].full = u_Heath \o <<" ">> \o u_Krandall

\* the records of the Authors a successful parse_one returned, post-cleaned,
\* in their order
ExportedAuthors ==
    LET kept == _post_clean(parsed[1][1])
    IN [k \in 1..Len(kept) |-> name_to_dict(kept[k])]

\* some post-cleaned Author of the parse matches the user
SomeAuthorMatches ==
    LET kept == _post_clean(parsed[1][1])
    IN \E k \in 1..Len(kept) : check_name_matches(user[1], kept[k])

\* the record made of the user's first_name and last_name as they are
OwnerRecord ==
    [first_name |-> user[1].first_name, surname |-> user[1].last_name,
     full |-> user[1].first_name \o <<" ">> \o user[1].last_name]

\* C6: for a string the grammar accepts and a user, parse_names returns the
\* post-cleaned Authors in their parsed order, followed by one record of the
\* user as the last element if and only if no post-cleaned Author matches
\* the user; the record is made of the user's names as they are, and there
\* is never more than one appended.
C6_OwnerAppendedIffNoMatch ==
    (op = "parse_names" /\ user # NoneValue /\ Accepted(names)) =>
        /\ raised = "none"
        /\ result = IF SomeAuthorMatches THEN ExportedAuthors
                    ELSE Append(ExportedAuthors, OwnerRecord)

\* parse_names has returned for a string with two persons, one of them the
\* user, and nothing was appended
C6_Witness ==
    /\ op = "parse_names"
    /\ names = n_TwoPersons
    /\ user # NoneValue
    /\ SomeAuthorMatches
    /\ Len(result) = 2

\* C7: every parse failure is surfaced to the caller, so that the caller can
\* tell a failed parse from a successful one: what parse_names returns for a
\* string the grammar rejects is returned for no string the grammar accepts
\* (with the same user).
C7_FailureSurfaced ==
    (op = "parse_names" /\ raised = "none" /\ ~Accepted(names)) =>
        \A other \in SampleNames :
            Accepted(other) =>
                \A outcome \in parse_one(other) :
                    parse_names(outcome.value, user) # result

\* C15: with no user, parse_names of "Ledger H, Bar H, and CE Heath" returns
\* exactly three records, in this order: first-name H, surname Ledger, full
\* H Ledger; first-name H, surname Bar, full H Bar; first-name CE, surname
\* Heath, full CE Heath.
C15_ScenarioThreePersons ==
    (op = "parse_names" /\ names = n_Scenario /\ user = NoneValue) =>
        /\ raised = "none"
        /\ result = <<[first_name |-> <<"H">>,
                       surname |-> <<"L", "e", "d", "g", "e", "r">>,
                       full |-> <<"H", " ", "L", "e", "d", "g", "e", "r">>],
                      [first_name |-> <<"H">>,
                       surname |-> <<"B", "a", "r">>,
                       full |-> <<"H", " ", "B", "a", "r">>],
                      [first_name |-> <<"C", "E">>,
                       surname |-> <<"H", "e", "a", "t", "h">>,
                       full |-> <<"C", "E", " ", "H", "e", "a", "t", "h">>]>>

\* parse_names has returned three records for the string and no user
C15_Witness ==
    /\ op = "parse_names"
    /\ names = n_Scenario
    /\ user = NoneValue
    /\ Len(result) = 3

\* the single_author nodes of a tree of the grammar, left to right
SingleAuthors(t) ==
    IF t.children[1].kind = "Alias" THEN t.children
    ELSE t.children[1].children

\* the values of the tokens of a node, None left out
ValuesOf(node) ==
    [k \in 1..Len(SelectSeq(node.children, LAMBDA c : c.kind = "Token")) |->
        SelectSeq(node.children, LAMBDA c : c.kind = "Token")[k].value]

\* the Author of a single_author node by the form of its tag: an_full is
\* first, initials, last; an_full_lfo last, first, initials; an_init
\* initials, last; an_init_lfo last, initials
AuthorOfForm(node) ==
    CASE node.data = "an_full" ->
             [type |-> "full", last_first |-> FALSE,
              first_name |-> ValuesOf(node.children[1]),
              initials |-> ValuesOf(node.children[2]),
              last_name |-> ValuesOf(node.children[3])]
      [] node.data = "an_full_lfo" ->
             [type |-> "full", last_first |-> TRUE,
              first_name |-> ValuesOf(node.children[2]),
              initials |-> ValuesOf(node.children[3]),
              last_name |-> ValuesOf(node.children[1])]
      [] node.data = "an_init" ->
             [type |-> "init", last_first |-> FALSE,
              first_name |-> <<>>,
              initials |-> ValuesOf(node.children[1]),
              last_name |-> ValuesOf(node.children[2])]
      [] node.data = "an_init_lfo" ->
             [type |-> "init", last_first |-> TRUE,
              first_name |-> <<>>,
              initials |-> ValuesOf(node.children[2]),
              last_name |-> ValuesOf(node.children[1])]

\* C25: unpack_tree makes one Author for each aliased single_author node of
\* the tree, in their order, with last_first true exactly for the tags that
\* end in _lfo, and the names of each node assigned by the form of its tag:
\* an_full first, initials, last; an_full_lfo last, first, initials; an_init
\* initials, last; an_init_lfo last, initials; no token of one
\* single_author is in another Author.
C25_UnpackByForm ==
    (op = "parse_one" /\ raised = "none" /\ parsed[1] # NoneValue) =>
        \E t \in RemoveAmbiguities(authors_trees(strip(_pre_clean(names)))) :
            parsed[1][1] = [k \in 1..Len(SingleAuthors(t)) |->
                               AuthorOfForm(SingleAuthors(t)[k])]

\* parse_one has returned, for a string with two names, one Author read
\* first name first with an initial and one read last name first
C25_Witness ==
    /\ op = "parse_one"
    /\ raised = "none"
    /\ parsed[1] # NoneValue
    /\ Len(parsed[1][1]) = 2
    /\ ~parsed[1][1][1].last_first
    /\ parsed[1][1][1].initials # <<>>
    /\ parsed[1][1][1].first_name # <<>>
    /\ parsed[1][1][2].last_first
    /\ parsed[1][1][2].last_name = <<w_Krandall>>

\* C28: the grammar accepts a list of authors whose last item comes after the
\* conjunction and, with or &, with or without a comma before it, and takes
\* the words and and with for the conjunction in every letter case: for two
\* names joined this way parse_one returns the two Authors.
C28_ConjunctionAnyCase ==
    (op = "parse_one" /\ names \in ConjoinedNames) =>
        /\ raised = "none"
        /\ parsed[1] # NoneValue
        /\ Len(parsed[1][1]) = 2
        /\ parsed[1][1][1].first_name = <<u_Penny>>
        /\ parsed[1][1][1].last_name = <<u_Pompidour>>
        /\ parsed[1][1][2].first_name = <<w_Heath>>
        /\ parsed[1][1][2].last_name = <<w_Krandall>>

(***************************************************************************)
(* Claims about parse_persons (checked under Spec)                         *)
(***************************************************************************)

\* positions of succeeded holding a record tagged with the id of row r
RecordsOf(r) == {k \in 1..Len(succeeded) : succeeded[k].id = r}

\* how often row r is in timeouts
TimeoutsOf(r) == Cardinality({k \in 1..Len(timeouts) : timeouts[k] = r})

\* the else branch of line 85 has run to its end for row r
Handled(r) == r \in timedOut /\ ~(pc = "else" /\ idx = r)

\* parse_persons is over: it returned, or an exception left it
Over == pc \in {"done", "raised"}

\* C1 (as claimed): when poll(TIMEOUT) returned False for a row, the row is in
\* timeouts exactly once, succeeded holds exactly one record for it and that
\* record is the owner-only one, every work item sent afterwards goes out
\* with the timed-out worker signalled and a new worker started, and every
\* later row of the batch is still processed (the loop reaches the end of
\* the rows).
C1_TimeoutHandled ==
    /\ \A r \in timedOut : Handled(r) =>
          /\ TimeoutsOf(r) = 1
          /\ Cardinality(RecordsOf(r)) = 1
          /\ \A k \in RecordsOf(r) : succeeded[k].owner
    /\ pc = "poll" =>
          /\ Len(procs) = Cardinality(timedOut) + 1
          /\ \A w \in 1..Len(procs) - 1 : procs[w].signalled
          /\ ~procs[Len(procs)].signalled
    /\ (Over /\ timedOut # {}) => idx > Len(rows)

\* C2 (as claimed): what main.recv() returns while row idx is being processed
\* was produced from the work item of row idx, and every parsed record in
\* succeeded carries the id of the row it was parsed from.
C2_ResultsPaired ==
    /\ (pc = "poll" /\ toMain # <<>>) => Head(toMain).src = idx
    /\ \A k \in 1..Len(succeeded) : succeeded[k].src = succeeded[k].id

\* the last started worker can never reach `return`: it waits in conn.recv()
\* on a pipe that holds nothing and that nobody writes to any more, or it is
\* inside a parse that never ends
LastWorkerStuck ==
    /\ pc = "done"
    /\ \/ procs[Len(procs)].st = "recv" /\ toWorker = <<>>
       \/ /\ procs[Len(procs)].st = "parsing"
          /\ rows[procs[Len(procs)].row].runaway

\* C3 (as claimed): parse_persons comes to its end for every sequence of
\* rows and, the final False sent, the last started worker receives it and
\* returns; so no run reaches a state in which False has been sent and the
\* last worker can never return.
C3_Terminates == ~LastWorkerStuck

\* C8 (as claimed): a row whose work item was answered with an empty list
\* ends with exactly one record in succeeded, the owner-only record carrying
\* the row's id, and line 82 raises nothing.
C8_EmptyAnswerGetsOwner ==
    \A r \in gotEmpty :
        /\ ~(pc = "raised" /\ idx = r)
        /\ r < idx =>
              /\ Cardinality(RecordsOf(r)) = 1
              /\ \A k \in RecordsOf(r) : succeeded[k].owner

\* C29 (as claimed): at most one worker is able to receive from or send on
\* the worker end of the pipe: a worker that was terminated after a timeout
\* takes no message from the pipe and sends no result from then on.
C29_OneWorkerOnPipe ==
    [][\A w \in 1..Len(procs) :
          procs[w].signalled => ~(WorkerRecv(w) \/ WorkerSend(w))]_vars

\* the rows whose work item is on its way: in the pipe to the worker, being
\* parsed by a worker, or answered in the pipe to main
ItemsSent ==
    {toWorker[k].row : k \in {j \in 1..Len(toWorker) : toWorker[j].t = "item"}}
    \cup {procs[w].row : w \in {v \in 1..Len(procs) : procs[v].st = "parsing"}}
    \cup {toMain[k].src : k \in 1..Len(toMain)}

MaxCandidates == 2

w_Pompidour == <<"P", "o", "m", "p", "i", "d", "o", "u", "r">>
w_Cora == <<"C", "o", "r", "a">>
w_Carl == <<"C", "a", "r", "l">>

\* the Authors of the parse: both orders of the grammar, a first name of no,
\* one or two tokens, no or some initials, a last name or a lone suffix
CandidatePool ==
    {with_names(Author(t), f, i, l) :
        t \in {"an_full", "an_full_lfo"},
        f \in {<<>>, <<w_Heath>>, <<w_Heath, w_Drew>>},
        i \in {<<>>, <<i_C, i_E>>},
        l \in {<<w_Krandall>>, <<w_Pompidour>>, <<w_Jr>>}}
        \ {with_names(Author(t), <<>>, <<>>, l) :
              t \in {"an_full", "an_full_lfo"},
              l \in {<<w_Krandall>>, <<w_Pompidour>>, <<w_Jr>>}}

CandidateLists == UNION {[1..n -> CandidatePool] : n \in 1..MaxCandidates}

\* the users: a first and a last name, with or without a middle name
MatchUsers ==
    {Some([first_name |-> w_Heath, middle_name |-> <<>>, last_name |-> w_Krandall]),
     Some([first_name |-> w_Cora, middle_name |-> <<"E">>, last_name |-> w_Krandall]),
     Some([first_name |-> w_Carl, middle_name |-> <<>>, last_name |-> w_Krandall]),
     Some([first_name |-> w_Heath, middle_name |-> <<>>, last_name |-> w_Pompidour])}

InitMatch ==
    /\ PartIIdle
    /\ OthersIdle
    /\ op = "none"
    /\ authors \in CandidateLists
    /\ user \in MatchUsers
    /\ result = <<>>
    /\ cleaned = <<>>
    /\ names = <<>>
    /\ parsed = <<>>
    /\ raised = "none"

\* result = self.parser._post_clean(result) (line 473)
CleanResult ==
    /\ op = "none"
    /\ op' = "_post_clean"
    /\ cleaned' = _post_clean(authors)
    /\ UNCHANGED <<pvars, gvars, ivars, tvars, authors, result, names, user, parsed, raised>>

\* a call check_name_matches(person) on the k-th cleaned Author
CheckNameMatches ==
    /\ op = "_post_clean"
    /\ op' = "check_name_matches"
    /\ \E k \in 1..Len(cleaned) :
          parsed' = <<k, check_name_matches(user[1], cleaned[k])>>
    /\ UNCHANGED <<pvars, gvars, ivars, tvars, authors, result, cleaned, names, user, raised>>

\* a call name_to_dict(person) on the k-th cleaned Author
NameToDict ==
    /\ op = "_post_clean"
    /\ op' = "name_to_dict"
    /\ \E k \in 1..Len(cleaned) :
          /\ parsed' = <<k>>
          /\ result' = <<name_to_dict(cleaned[k])>>
    /\ UNCHANGED <<pvars, gvars, ivars, tvars, authors, cleaned, names, user, raised>>

\* parse_names from the point where parse_one has returned the Authors
ParseNamesOfAuthors ==
    /\ op = "none"
    /\ op' = "parse_names"
    /\ cleaned' = _post_clean(authors)
    /\ result' = parse_names(<<Some(authors), NoneValue>>, user)
    /\ UNCHANGED <<pvars, gvars, ivars, tvars, authors, names, user, parsed, raised>>

NextMatch ==
    \/ CleanResult
    \/ CheckNameMatches
    \/ NameToDict
    \/ ParseNamesOfAuthors

SpecMatch == InitMatch /\ [][NextMatch]_vars

(***************************************************************************)
(* Claims about check_name_matches, name_to_dict and the loop of           *)
(* parse_names (checked under SpecMatch)                                   *)
(***************************************************************************)

\* the permutations of a list
Reorderings(list) ==
    {[k \in 1..Len(list) |-> list[f[k]]] :
        f \in {g \in [1..Len(list) -> 1..Len(list)] :
                  \A a, b \in 1..Len(list) : g[a] = g[b] => a = b}}

\* the positions of the cleaned Authors that match the user
MatchingPositions(list) ==
    {k \in 1..Len(list) : check_name_matches(user[1], list[k])}

\* C11: whether parse_names finds a match for the user, and so whether it
\* appends the user's record, is the same for every permutation of the
\* cleaned Authors: the list returned for a permutation is one longer than
\* the permutation exactly when the list returned for the original is.
C11_MatchIndependentOfOrder ==
    op = "parse_names" =>
        \A other \in Reorderings(cleaned) :
            (Len(export_with_user(other, user[1], FALSE, <<>>)) = Len(other) + 1)
                <=> (Len(result) = Len(cleaned) + 1)

\* parse_names has returned for two different Authors of which only the
\* second matches the user, and no record was appended
C11_Witness ==
    /\ op = "parse_names"
    /\ Len(cleaned) = 2
    /\ MatchingPositions(cleaned) = {2}
    /\ Len(result) = 2

\* the Author check_name_matches was called on
Candidate == cleaned[parsed[1]]

\* C12: check_name_matches reports no match whenever the user's last_name
\* differs from the candidate's last_name tokens joined by spaces, whatever
\* the candidate's first_name and initials.
C12_SurnameMustMatch ==
    (op = "check_name_matches"
        /\ user[1].last_name # join(<<" ">>, Candidate.last_name)) =>
        parsed[2] = FALSE

\* check_name_matches has said no for a candidate whose first name is the
\* user's and whose last name is not
C12_Witness ==
    /\ op = "check_name_matches"
    /\ user[1].last_name # join(<<" ">>, Candidate.last_name)
    /\ Candidate.first_name = <<user[1].first_name>>
    /\ parsed[2] = FALSE

\* C13: when the surname matches and the candidate has a first_name,
\* check_name_matches succeeds if and only if the user's first_name is the
\* candidate's first_name joined by spaces or its first token; the
\* candidate's initials and the user's middle_name play no part.
C13_FirstNameDecides ==
    (op = "check_name_matches"
        /\ user[1].last_name = join(<<" ">>, Candidate.last_name)
        /\ Candidate.first_name # <<>>) =>
        (parsed[2] <=> \/ user[1].first_name = join(<<" ">>, Candidate.first_name)
                       \/ user[1].first_name = Candidate.first_name[1])

\* check_name_matches has said yes for a candidate with a first name of two
\* tokens, the first of them the user's first name, and initials that are
\* not the user's
C13_Witness ==
    /\ op = "check_name_matches"
    /\ user[1].last_name = join(<<" ">>, Candidate.last_name)
    /\ Len(Candidate.first_name) = 2
    /\ Candidate.first_name[1] = user[1].first_name
    /\ Candidate.initials = <<<<"C">>, <<"E">>>>
    /\ parsed[2] = TRUE

\* the initials of the user: the first letter of first_name in upper case,
\* and the first letter of middle_name when there is one
OwnerInitials ==
    <<upper(user[1].first_name[1])>>
        \o (IF user[1].middle_name # <<>> THEN <<upper(user[1].middle_name[1])>>
            ELSE <<>>)

\* C14: when the surname matches and the candidate has no first_name,
\* check_name_matches succeeds if and only if the candidate has initials and
\* either its initials joined are the user's initials or the first initial
\* of each is the same letter.
C14_InitialsDecide ==
    (op = "check_name_matches"
        /\ user[1].last_name = join(<<" ">>, Candidate.last_name)
        /\ Candidate.first_name = <<>>) =>
        (parsed[2] <=> /\ Candidate.initials # <<>>
                       /\ \/ join(<<>>, Candidate.initials) = OwnerInitials
                          \/ Candidate.initials[1] = <<OwnerInitials[1]>>)

\* check_name_matches has said yes for a candidate with the initials C E and
\* a user with the one initial C
C14_Witness ==
    /\ op = "check_name_matches"
    /\ user[1].last_name = join(<<" ">>, Candidate.last_name)
    /\ Candidate.first_name = <<>>
    /\ Candidate.initials = <<<<"C">>, <<"E">>>>
    /\ OwnerInitials = <<"C">>
    /\ parsed[2] = TRUE

\* the Author name_to_dict was called on
Person == cleaned[parsed[1]]

\* the first-name of the record: the first_name joined by spaces, followed
\* by the initials joined
FirstNameOf(a) ==
    IF a.first_name = <<>> THEN join(<<>>, a.initials)
    ELSE IF a.initials = <<>> THEN join(<<" ">>, a.first_name)
    ELSE join(<<" ">>, a.first_name) \o <<" ">> \o join(<<>>, a.initials)

\* C16: name_to_dict maps a cleaned Author to a mapping with exactly the
\* keys first-name, surname and full: surname is the last_name joined by
\* spaces, first-name the first_name joined by spaces followed by the
\* initials joined (the initials alone when there is no first_name), full is
\* first-name, a space and surname whatever the order of the parse (surname
\* alone when first-name is empty).
C16_NameToDict ==
    op = "name_to_dict" =>
        /\ DOMAIN result[1] = {"first_name", "surname", "full"}
        /\ result[1].surname = join(<<" ">>, Person.last_name)
        /\ result[1].first_name = FirstNameOf(Person)
        /\ result[1].full = IF FirstNameOf(Person) = <<>> THEN result[1].surname
                            ELSE FirstNameOf(Person) \o <<" ">> \o result[1].surname

\* name_to_dict has returned for an Author parsed last name first, with a
\* first name and initials
C16_Witness ==
    /\ op = "name_to_dict"
    /\ Person.last_first
    /\ Person.first_name # <<>>
    /\ Person.initials # <<>>
    /\ result[1].full = w_Heath \o <<" ", "C", "E", " ">> \o w_Krandall

(***************************************************************************)
(* name_parser.py: parse_many (lines 167-177).  The generator runs from    *)
(* one yield to the next, one string of the list per step; a second call   *)
(* is made on the same parser when the generator of the first is           *)
(* exhausted.                                                              *)
(***************************************************************************)
MaxNames == 2
MaxCalls == 2

\* `if result:` (line 173): a list that is not None and not empty
truthy(pair) ==
    /\ pair[1] # NoneValue
    /\ pair[1][1] # <<>>

\* lines 176-177: the error mapping with its index
error_entry(pair, i) == [error |-> pair[2][1].error, index |-> i]

\* line 174 without the call of _post_clean
yielded_entry_as_parsed(pair, i) == [index |-> i, authors |-> pair[1][1]]

\* line 174: the dict {i: self._post_clean(result)}
yielded_entry(pair, i) == [index |-> i, authors |-> _post_clean(pair[1][1])]

\* the strings of the lists
ManyNames == {n_HeathKrandall, n_Garbage, n_DrKrandall}

NameLists == UNION {[1..n -> ManyNames] : n \in 1..MaxNames}

\* AuthorParser.__init__ (lines 102-113): no errors (line 103)
InitMany ==
    /\ PartIIdle
    /\ NamesIdle
    /\ op = "none"
    /\ authors = <<>>
    /\ result = <<>>
    /\ cleaned = <<>>
    /\ errors = <<>>
    /\ list_of_names = <<>>
    /\ position = 0
    /\ yielded = <<>>
    /\ calls = 0
    /\ mark = 0
    /\ used = <<>>
    /\ minted = <<>>
    /\ parse_tree = <<>>

\* a call parser.parse_many(list_of_names): a new generator, at index 0
ParseManyCall ==
    /\ op \in {"none", "exhausted"}
    /\ calls < MaxCalls
    /\ op' = "parse_many"
    /\ list_of_names' \in NameLists
    /\ position' = 0
    /\ yielded' = <<>>
    /\ calls' = calls + 1
    /\ mark' = Len(errors)
    /\ UNCHANGED <<pvars, ivars, tvars, authors, result, cleaned, names, user, parsed, raised,
                   errors>>

\* one round of the for loop (lines 171-177)
ParseManyStep ==
    /\ op = "parse_many"
    /\ position < Len(list_of_names)
    /\ \E outcome \in parse_one(list_of_names[position + 1]) :
          IF outcome.raised # "none"
          THEN /\ raised' = outcome.raised
               /\ op' = "raised"
               /\ UNCHANGED <<yielded, errors, position>>
          ELSE IF truthy(outcome.value)
          THEN /\ yielded' = Append(yielded, yielded_entry(outcome.value, position))
               /\ position' = position + 1
               /\ UNCHANGED <<op, errors, raised>>
          ELSE IF outcome.value[2] # NoneValue
          THEN /\ errors' = Append(errors, error_entry(outcome.value, position))
               /\ position' = position + 1
               /\ UNCHANGED <<op, yielded, raised>>
          ELSE \* error is None: error.update raises
               /\ raised' = "AttributeError"
               /\ op' = "raised"
               /\ UNCHANGED <<yielded, errors, position>>
    /\ UNCHANGED <<pvars, ivars, tvars, authors, result, cleaned, names, user, parsed,
                   list_of_names, calls, mark>>

\* the for loop is over: the generator is exhausted
ParseManyExhausted ==
    /\ op = "parse_many"
    /\ position = Len(list_of_names)
    /\ op' = "exhausted"
    /\ UNCHANGED <<pvars, ivars, tvars, authors, result, cleaned, names, user, parsed, raised,
                   errors, list_of_names, position, yielded, calls, mark>>

NextMany ==
    \/ ParseManyCall
    \/ ParseManyStep
    \/ ParseManyExhausted

SpecMany == InitMany /\ [][NextMany]_vars

(***************************************************************************)
(* Claims about parse_many (checked under SpecMany)                        *)
(***************************************************************************)

\* the entries of errors appended since the last call was made
AppendedErrors == SubSeq(errors, mark + 1, Len(errors))

\* the Author lists parse_one can return for a string, post-cleaned
CleanedParses(s) ==
    {_post_clean(outcome.value[1][1]) :
        outcome \in {o \in parse_one(s) : o.raised = "none" /\ o.value[1] # NoneValue}}

\* C17: when the generator of parse_many over n strings is exhausted, every
\* index i in 0..n-1 is accounted for exactly once: either one dict with the
\* key i and the post-cleaned Authors of string i was yielded, or one entry
\* with the message of the grammar's error and 'index' i was appended to
\* errors; the keys of the dicts yielded increase.
C17_EveryIndexOnce ==
    op = "exhausted" =>
        /\ \A i \in 0..(Len(list_of_names) - 1) :
              LET ys == {k \in 1..Len(yielded) : yielded[k].index = i}
                  es == {k \in 1..Len(AppendedErrors) : AppendedErrors[k].index = i}
              IN /\ Cardinality(ys) + Cardinality(es) = 1
                 /\ \A k \in ys :
                       yielded[k].authors \in CleanedParses(list_of_names[i + 1])
                 /\ \A k \in es :
                       /\ ~Accepted(list_of_names[i + 1])
                       /\ AppendedErrors[k].error
                              \in {"UnexpectedCharacters", "UnexpectedEOF"}
        /\ \A k \in 1..Len(yielded) : yielded[k].index \in 0..(Len(list_of_names) - 1)
        /\ \A k \in 1..Len(AppendedErrors) :
              AppendedErrors[k].index \in 0..(Len(list_of_names) - 1)
        /\ \A j, k \in 1..Len(yielded) : j < k => yielded[j].index < yielded[k].index

\* a generator over a title with a last name and a string the grammar
\* rejects is exhausted: an empty Author list was yielded for index 0, an
\* error recorded for index 1
C17_Witness ==
    /\ op = "exhausted"
    /\ list_of_names = <<n_DrKrandall, n_Garbage>>
    /\ yielded = <<[index |-> 0, authors |-> <<>>]>>
    /\ AppendedErrors = <<[error |-> "UnexpectedCharacters", index |-> 1]>>

\* C18: no parse call leaves state on the parser that lasts into a later
\* call: when a parse_many generator is exhausted, errors holds only the
\* failures of the strings of that call, one entry per string the grammar
\* rejects.
C18_NoStateBetweenCalls ==
    op = "exhausted" =>
        /\ Len(errors) = Cardinality({i \in 1..Len(list_of_names) :
                                         ~Accepted(list_of_names[i])})
        /\ \A k \in 1..Len(errors) :
              /\ errors[k].index < Len(list_of_names)
              /\ ~Accepted(list_of_names[errors[k].index + 1])

(***************************************************************************)
(* elements_types.py: ElementsObjectID (lines 85-108).  The IDs are minted *)
(* from SHA-256 digests; the digests of the sample inputs are the real     *)
(* ones, three of them with the same first eight characters.               *)
(***************************************************************************)
ID_LENGTH == 8

in_First == <<"1", "3", "6", "4", "8", "9", "0">>
in_Second == <<"3", "3", "3", "7", "6", "7", "9">>
in_Third == <<"5", "0", "9", "9", "2", "4", "7">>
in_Fourth == <<"3", "8", "9", "7">>
in_Fifth == <<"8", "8", "2", "7", "7">>

digest_First ==
    <<"2", "6", "7", "d", "6", "1", "1", "4", "3", "c", "0", "5", "8", "5",
      "d", "a", "d", "6", "d", "c", "a", "2", "3", "1", "6", "1", "5", "1",
      "2", "8", "3", "2", "e", "9", "6", "e", "8", "b", "8", "3", "e", "7",
      "0", "2", "c", "d", "e", "e", "4", "3", "3", "8", "2", "a", "5", "3",
      "8", "7", "d", "f", "d", "f", "e", "0">>
digest_Second ==
    <<"2", "6", "7", "d", "6", "1", "1", "4", "b", "f", "3", "6", "1", "3",
      "0", "4", "7", "0", "8", "6", "2", "3", "4", "2", "8", "4", "f", "e",
      "1", "1", "5", "3", "4", "4", "e", "d", "d", "b", "e", "f", "e", "2",
      "9", "8", "d", "5", "7", "c", "0", "b", "e", "e", "2", "1", "d", "e",
      "1", "7", "4", "2", "d", "0", "f", "4">>
digest_Third ==
    <<"2", "6", "7", "d", "6", "1", "1", "4", "c", "e", "e", "9", "f", "f",
      "3", "7", "f", "b", "0", "7", "e", "e", "3", "5", "9", "9", "b", "8",
      "d", "b", "9", "d", "0", "4", "4", "c", "f", "9", "5", "2", "b", "c",
      "a", "3", "3", "f", "f", "7", "9", "3", "8", "9", "8", "8", "4", "6",
      "9", "7", "5", "8", "d", "9", "a", "4">>
digest_Fourth ==
    <<"7", "5", "d", "9", "3", "d", "b", "e", "e", "6", "6", "1", "2", "0",
      "9", "5", "e", "7", "7", "0", "f", "8", "6", "3", "7", "e", "b", "2",
      "3", "9", "7", "7", "3", "d", "8", "8", "0", "8", "8", "3", "9", "f",
      "3", "0", "c", "e", "8", "8", "3", "3", "1", "5", "b", "c", "f", "7",
      "f", "1", "7", "e", "9", "f", "3", "0">>
digest_Fifth ==
    <<"5", "d", "f", "0", "f", "b", "6", "1", "5", "6", "1", "d", "7", "5",
      "2", "6", "1", "a", "6", "6", "7", "6", "9", "7", "0", "9", "1", "3",
      "7", "7", "5", "f", "0", "9", "3", "4", "1", "c", "a", "3", "3", "a",
      "f", "d", "3", "4", "7", "4", "c", "b", "b", "8", "0", "8", "d", "3",
      "3", "0", "1", "b", "f", "8", "d", "8">>

\* sha256(input).hexdigest() (line 98), on the sample inputs
sha256(input) ==
    CASE input = in_First -> digest_First
      [] input = in_Second -> digest_Second
      [] input = in_Third -> digest_Third
      [] input = in_Fourth -> digest_Fourth
      [] input = in_Fifth -> digest_Fifth

\* a value of the list: pd.NA, or a str
NA == [isna |-> TRUE, str |-> <<>>]
Str(s) == [isna |-> FALSE, str |-> s]

\* line 97: the values that are not null and not empty, joined
mint_input(values) ==
    join(<<>>, [k \in 1..Len(SelectSeq(values, LAMBDA v : ~v.isna /\ v.str # <<>>)) |->
                   SelectSeq(values, LAMBDA v : ~v.isna /\ v.str # <<>>)[k].str])

HexDigits ==
    <<"0", "1", "2", "3", "4", "5", "6", "7", "8", "9", "a", "b", "c", "d", "e", "f">>

\* the digits of a hexadecimal literal without its prefix 0x
digits_of(s) ==
    IF Len(s) >= 2 /\ SubSeq(s, 1, 2) = <<"0", "x">> THEN SubSeq(s, 3, Len(s)) ELSE s

\* the number a string of hexadecimal digits stands for
RECURSIVE digits_value(_)
digits_value(s) ==
    IF s = <<>> THEN 0
    ELSE digits_value(SubSeq(s, 1, Len(s) - 1)) * Len(HexDigits)
             + (CHOOSE k \in 0..(Len(HexDigits) - 1) : HexDigits[k + 1] = s[Len(s)])

\* int(_id, 16) (line 106): the prefix 0x is allowed
int16(s) == digits_value(digits_of(s))

\* the hexadecimal digits of a number, without leading zeros
RECURSIVE hex_digits(_)
hex_digits(n) ==
    IF n < Len(HexDigits) THEN <<HexDigits[n + 1]>>
    ELSE hex_digits(n \div Len(HexDigits)) \o <<HexDigits[(n % Len(HexDigits)) + 1]>>

\* hex(n) (line 106)
hex(n) == <<"0", "x">> \o hex_digits(n)

\* s[:n]
prefix(s, n) == SubSeq(s, 1, IF Len(s) < n THEN Len(s) ELSE n)

\* self.used.values()
used_values(used_) == {used_[h] : h \in DOMAIN used_}

\* lines 105-106 without the loop: the prefix of the hash as it is
without_increment(_id, used_) == _id

\* the while loop of lines 105-106
RECURSIVE increment_until_free(_, _)
increment_until_free(_id, used_) ==
    IF _id \in used_values(used_)
    THEN increment_until_free(prefix(hex(int16(_id) + 1), ID_LENGTH), used_)
    ELSE _id

\* self.used[hash] = _id (line 107)
store(used_, hash, _id) ==
    [h \in DOMAIN used_ \cup {hash} |-> IF h = hash THEN _id ELSE used_[h]]

\* mint_id (lines 95-108): the ID returned and the store after the call
mint_id(values, used_) ==
    IF sha256(mint_input(values)) \in DOMAIN used_
    THEN [id |-> used_[sha256(mint_input(values))], used |-> used_]
    ELSE [id |-> increment_until_free(prefix(sha256(mint_input(values)), ID_LENGTH),
                                      used_),
          used |-> store(used_, sha256(mint_input(values)),
                         increment_until_free(prefix(sha256(mint_input(values)),
                                                     ID_LENGTH), used_))]

\* the lists of values the IDs are minted from
MintValues ==
    {<<Str(in_First)>>, <<Str(in_Second)>>, <<Str(in_Third)>>, <<Str(in_Fourth)>>,
     <<Str(in_Fifth)>>,
     <<Str(<<"1", "3", "6">>), NA, Str(<<>>), Str(<<"4", "8", "9", "0">>)>>}

\* ElementsObjectID() (lines 88-93) with no path: an empty store
InitMint ==
    /\ PartIIdle
    /\ NamesIdle
    /\ op = "none"
    /\ authors = <<>>
    /\ result = <<>>
    /\ cleaned = <<>>
    /\ errors = <<>>
    /\ list_of_names = <<>>
    /\ position = 0
    /\ yielded = <<>>
    /\ calls = 0
    /\ mark = 0
    /\ used = <<>>
    /\ minted = <<>>
    /\ parse_tree = <<>>

\* a call mint_id(values)
MintId ==
    /\ \E values \in MintValues :
          /\ used' = mint_id(values, used).used
          /\ minted' = [values |-> values, id |-> mint_id(values, used).id,
                        before |-> used]
    /\ UNCHANGED <<pvars, nvars, gvars, tvars>>

NextMint == MintId

SpecMint == InitMint /\ [][NextMint]_vars

(***************************************************************************)
(* Claims about mint_id (checked under SpecMint)                           *)
(***************************************************************************)

\* the hash of the values of the last call
LastHash == sha256(mint_input(minted.values))

MaxWords == 2

p_KRANDALL == <<"K", "R", "A", "N", "D", "A", "L", "L">>
p_DOUGLAS == <<"D", "O", "U", "G", "L", "A", "S">>
p_Heath == <<"H", "e", "a", "t", "h">>
p_MD == <<"M", "D">>
p_FACP == <<"F", "A", "C", "P">>
p_LCSW == <<"L", "C", "S", "W">>
p_ANNA == <<"A", "N", "N", "A">>
p_JOANNA == <<"J", "O", "A", "N", "N", "A">>
p_III == <<"I", "I", "I">>

PreWords ==
    {p_KRANDALL, p_DOUGLAS, p_Heath, p_MD, p_FACP,
     p_LCSW, p_ANNA, p_JOANNA, p_III}

\* what a string may end with: nothing, a punctuation character, a
\* punctuation character and a newline, or a period after a space
PreEndings == {<<>>, <<".">>, <<",">>, <<";">>, <<":">>, <<".", "\n">>, <<" ", ".">>}

PreStrings ==
    {join(<<" ">>, ws) \o ending :
        ws \in UNION {[1..n -> PreWords] : n \in 1..MaxWords}, ending \in PreEndings}

InitPre ==
    /\ PartIIdle
    /\ OthersIdle
    /\ op = "none"
    /\ authors = <<>>
    /\ result = <<>>
    /\ cleaned = <<>>
    /\ names \in PreStrings
    /\ user = <<>>
    /\ parsed = <<>>
    /\ raised = "none"

\* a call parser._pre_clean(names)
PreClean ==
    /\ op = "none"
    /\ op' = "_pre_clean"
    /\ result' = _pre_clean(names)
    /\ UNCHANGED <<pvars, gvars, ivars, tvars, authors, cleaned, names, user, parsed, raised>>

NextPre == PreClean

SpecPre == InitPre /\ [][NextPre]_vars

(***************************************************************************)
(* Claims about _pre_clean (checked under SpecPre)                         *)
(***************************************************************************)

\* the string with the part _pre_clean took off its end left out
KeptPart == SubSeq(names, 1, Len(result))

\* a string with every run of four or more capital letters that is no
\* acronym in title case, from i on
RECURSIVE TitleCased(_, _)
TitleCased(s, i) ==
    IF i > Len(s) THEN <<>>
    ELSE IF RunEnd(s, i, Lu) = i THEN <<s[i]>> \o TitleCased(s, i + 1)
    ELSE (IF RunEnd(s, i, Lu) >= i + 4 /\ Text(s, i, RunEnd(s, i, Lu)) \notin ACRONYMS
          THEN title(Text(s, i, RunEnd(s, i, Lu)))
          ELSE Text(s, i, RunEnd(s, i, Lu)))
             \o TitleCased(s, RunEnd(s, i, Lu))

\* the runs of four or more capital letters of a string
CapitalRuns(s) ==
    {Text(s, i, RunEnd(s, i, Lu)) :
        i \in {j \in 1..Len(s) : /\ RunEnd(s, j, Lu) >= j + 4
                                 /\ (j = 1 \/ s[j - 1] \notin Lu)}}

\* C23: _pre_clean puts every run of four or more capital letters that is
\* no acronym of the vocabulary in title case and leaves the acronyms as
\* they are: the string returned has no run of four or more capital letters
\* that is not an acronym, and every other character is as in the input.
C23_CapitalsTitleCased ==
    op = "_pre_clean" =>
        /\ CapitalRuns(result) \subseteq ACRONYMS
        /\ result = TitleCased(KeptPart, 1)

\* C24: _pre_clean takes exactly one character off the end of a string that
\* ends with one of . , ; : and nothing off the end of any other string;
\* the character taken off is always that punctuation character.
C24_TrailingPunctuation ==
    op = "_pre_clean" =>
        /\ Len(result) = IF names # <<>> /\ names[Len(names)] \in PUNCT
                         THEN Len(names) - 1 ELSE Len(names)
        /\ Len(result) < Len(names) => names[Len(names)] \in PUNCT

(***************************************************************************)
(* name_parser.py: RemoveAmbiguities (lines 27-34) as a transformer of     *)
(* trees.  With ambiguity='explicit' the parser puts a Tree with the data  *)
(* _ambig where a span has more than one derivation, its children the      *)
(* derivations in the order the parser found them.  A Transformer_InPlace  *)
(* goes through the subtrees children first and replaces each child that   *)
(* is a Tree by what the callback of its data returns for its children.    *)
(***************************************************************************)
MaxOptions == 2

\* an ambiguity node
Ambig(options) == Tree("Rule", "_ambig", options)

\* line 34 with the last of the options that score highest
last_max(options) ==
    options[CHOOSE k \in 1..Len(options) :
                /\ \A j \in 1..Len(options) : score(options[j]) <= score(options[k])
                /\ \A j \in (k + 1)..Len(options) : score(options[j]) < score(options[k])]

\* _ambig (lines 33-34): max(options, key=score) is the first of the options
\* that score highest
_ambig(options) ==
    options[CHOOSE k \in 1..Len(options) :
                /\ \A j \in 1..Len(options) : score(options[j]) <= score(options[k])
                /\ \A j \in 1..(k - 1) : score(options[j]) < score(options[k])]

\* the callback for a Tree whose children are transformed: _ambig for an
\* ambiguity node, a Tree with the same data and the new children otherwise
call_userfunc(node, children) ==
    IF node.data = "_ambig" THEN _ambig(children)
    ELSE [node EXCEPT !.children = children]

\* the transformer with the options of an ambiguity node scored as the
\* parser gave them and only the one chosen transformed
RECURSIVE transform_chosen_first(_)
transform_chosen_first(node) ==
    IF node.kind \notin {"Rule", "Alias"} THEN node
    ELSE IF node.data = "_ambig" THEN transform_chosen_first(_ambig(node.children))
    ELSE [node EXCEPT !.children =
              [k \in 1..Len(node.children) |-> transform_chosen_first(node.children[k])]]

\* RemoveAmbiguities().transform(tree) (line 162)
RECURSIVE transform(_)
transform(node) ==
    IF node.kind \notin {"Rule", "Alias"} THEN node
    ELSE call_userfunc(node, [k \in 1..Len(node.children) |-> transform(node.children[k])])

\* trees without ambiguity: names of one to three tokens, and single
\* authors made of them with scores 7, 7 and 8
t_Heath == Tree("Rule", "author_name", <<Token("NAME_PART", w_Heath), None>>)
t_Krandall == Tree("Rule", "author_name", <<Token("NAME_PART", w_Krandall), None>>)
t_HeathDrew ==
    Tree("Rule", "author_name",
         <<Token("NAME_PART", w_Heath), Token("NAME_PART", w_Drew), None>>)
t_K == Tree("Rule", "initials", <<Token("INITIAL", <<"K">>), None, None>>)

PlainTrees ==
    {Tree("Alias", "an_init_lfo", <<t_Heath, t_K>>),
     Tree("Alias", "an_full", <<t_Heath, None, t_Krandall>>),
     Tree("Alias", "an_full", <<t_HeathDrew, None, t_Krandall>>),
     t_HeathDrew}

\* the sequences of one to MaxOptions options of a set
OptionLists(choices) == UNION {[1..n -> choices] : n \in 1..MaxOptions}

\* a rule with one child that is ambiguous
OverAmbiguity == {Tree("Rule", "authors", <<Ambig(o)>>) : o \in OptionLists(PlainTrees)}

\* the trees handed to the transformer: without ambiguity, ambiguous at the
\* root, ambiguous below the root, and ambiguous at the root with options
\* that are ambiguous or have an ambiguity below them
SampleTrees ==
    PlainTrees
    \cup {Ambig(o) : o \in OptionLists(PlainTrees)}
    \cup OverAmbiguity
    \cup {Ambig(<<a, b>>) : a \in OverAmbiguity \cup {Ambig(o) : o \in OptionLists(PlainTrees)},
                            b \in PlainTrees}
    \cup {Ambig(<<b, a>>) : a \in OverAmbiguity, b \in PlainTrees}

InitAmbig ==
    /\ PartIIdle
    /\ NamesIdle
    /\ op = "none"
    /\ authors = <<>>
    /\ result = <<>>
    /\ cleaned = <<>>
    /\ errors = <<>>
    /\ list_of_names = <<>>
    /\ position = 0
    /\ yielded = <<>>
    /\ calls = 0
    /\ mark = 0
    /\ used = <<>>
    /\ minted = <<>>
    /\ parse_tree \in SampleTrees

\* tree = RemoveAmbiguities().transform(tree)
Transform ==
    /\ op = "none"
    /\ op' = "transform"
    /\ result' = transform(parse_tree)
    /\ cleaned' = transform(parse_tree)
    /\ UNCHANGED <<pvars, gvars, ivars, tvars, authors, names, user, parsed, raised>>

\* the transformer applied to the tree it returned
TransformAgain ==
    /\ op = "transform"
    /\ op' = "transform again"
    /\ result' = transform(result)
    /\ UNCHANGED <<pvars, gvars, ivars, tvars, authors, cleaned, names, user, parsed, raised>>

NextAmbig ==
    \/ Transform
    \/ TransformAgain

SpecAmbig == InitAmbig /\ [][NextAmbig]_vars

(***************************************************************************)
(* Claims about RemoveAmbiguities (checked under SpecAmbig)                *)
(***************************************************************************)

\* the tree has an ambiguity node in it
RECURSIVE HasAmbiguity(_)
HasAmbiguity(node) ==
    /\ node.kind \in {"Rule", "Alias"}
    /\ \/ node.data = "_ambig"
       \/ \E k \in 1..Len(node.children) : HasAmbiguity(node.children[k])

\* the tree is an ambiguity node whose options have no ambiguity in them
PlainOptions(node) ==
    /\ node.data = "_ambig"
    /\ \A k \in 1..Len(node.children) : ~HasAmbiguity(node.children[k])

\* the number of children, summed over the nodes of a tree
RECURSIVE Size(_)
Size(node) ==
    IF node.children = <<>> THEN 0
    ELSE Len(node.children)
             + Size(node.children[1])
             + Size([node EXCEPT !.children = Tail(node.children)])
             - Len(Tail(node.children))

\* C26: for an ambiguity node RemoveAmbiguities selects an option whose
\* score, the number of children summed over its subtrees, is at least that
\* of every other option, and of the options with the highest score the
\* first in the order the parser gave them.
C26_FirstMaximum ==
    (op = "transform" /\ PlainOptions(parse_tree)) =>
        \E k \in 1..Len(parse_tree.children) :
            /\ result = parse_tree.children[k]
            /\ \A j \in 1..Len(parse_tree.children) :
                  Size(parse_tree.children[j]) <= Size(result)
            /\ \A j \in 1..(k - 1) : Size(parse_tree.children[j]) < Size(result)

\* the transformer has resolved an ambiguity of two different options with
\* the same score, and kept the first
C26_Witness ==
    /\ op = "transform"
    /\ PlainOptions(parse_tree)
    /\ Len(parse_tree.children) = 2
    /\ parse_tree.children[1] # parse_tree.children[2]
    /\ Size(parse_tree.children[1]) = Size(parse_tree.children[2])
    /\ result = parse_tree.children[1]

\* C27: RemoveAmbiguities resolves the ambiguities innermost first: the
\* options of an outer ambiguity node are scored with every ambiguity inside
\* them resolved; the tree returned has no ambiguity node, also when the
\* root is one; the transformer applied to the tree it returned gives the
\* same tree.
C27_InnermostFirst ==
    /\ op \in {"transform", "transform again"} => ~HasAmbiguity(result)
    /\ (op = "transform" /\ parse_tree.data = "_ambig") =>
          \A j \in 1..Len(parse_tree.children) :
              /\ ~HasAmbiguity(transform(parse_tree.children[j]))
              /\ Size(transform(parse_tree.children[j])) <= Size(result)
    /\ op = "transform again" => result = cleaned

\* the transformer has resolved an ambiguity whose first option has an
\* ambiguity inside it and, with that resolved, scores lower than the
\* second, which it kept
C27_Witness ==
    /\ op = "transform"
    /\ parse_tree.data = "_ambig"
    /\ Len(parse_tree.children) = 2
    /\ HasAmbiguity(parse_tree.children[1])
    /\ Size(parse_tree.children[1]) > Size(parse_tree.children[2])
    /\ result = parse_tree.children[2]


====
